---------------------------- MODULE Spec2Model ----------------------------
(***************************************************************************)
(* A model of hyfetch's backend launcher (rs.py), configuration model     *)
(* (models.py) and colour-profile engine (presets.py).                    *)
(*                                                                         *)
(* Python strings whose characters matter (version strings, hex colour    *)
(* literals, coloured text) are sequences of one-character strings; the   *)
(* escape character \033 is the element "ESC".                            *)
(***************************************************************************)
EXTENDS Integers, Sequences, FiniteSets, TLC

VARIABLES
    \* ---- rs.py: the process environment run_rust reads
    system,        \* platform.system()
    winMajor,      \* sys.getwindowsversion().major (0 where the call does not exist)
    macVersion,    \* the macOS release as numbers (<<>>: not reported)
    binExists,     \* whether SRC/rust/hyfetch[.exe] exists
    existsRaises,  \* whether pd.exists() raises (a directory that cannot be searched)
    binExecutable, \* whether os.execv can load that file
    environ,       \* os.environ, a function from names to values
    argv,          \* sys.argv
    asMain,        \* __name__ == '__main__'
    \* ---- rs.py: run_rust's own state
    pc,            \* position in run_rust / the __main__ block
    reason,        \* the local variable reason
    pd,            \* the local variable pd, as str(pd)
    events,        \* the calls made so far: printc, run_py, os.execv
    exitStatus,    \* status passed to exit(), -1 while exit() was not called
    interruptedAt, \* where a KeyboardInterrupt was raised ("none": nowhere)
    \* ---- models.py
    hex_colors,     \* argument of build_hex_color_profile
    built,          \* outcome of build_hex_color_profile
    custom_presets, \* Config.custom_presets
    profiles,       \* outcome of Config.custom_preset_profiles
    \* ---- presets.py
    colors,        \* ColorProfile.colors
    call,          \* the last ColorProfile method called, with its arguments
    weights,       \* with_length's local variable weights when it returned
    fitted,        \* what with_length returned
    result,        \* what color_text returned
    use_overlay,   \* GLOBAL_CFG.use_overlay
    light_dark,    \* what GLOBAL_CFG.light_dark() returns
    light,         \* set_light_dl's argument light, in hundredths
    term,          \* set_light_dl's argument term
    lit,           \* outcome of set_light_dl
    py_debug,      \* __debug__: assert statements are executed (FALSE under python -O)
    reg_pos,       \* position in PRESETS of the entry examined
    load_pc,       \* how far the load of presets.py has come
    import_error,  \* exception that stopped the load of presets.py, or "none"
    types_names    \* the names hyfetch.types binds when presets.py is loaded

rsVars == <<system, winMajor, macVersion, binExists, existsRaises, binExecutable,
            environ, argv, asMain,
            pc, reason, pd, events, exitStatus, interruptedAt>>
modelsVars == <<hex_colors, built, custom_presets, profiles>>
lightVars == <<use_overlay, light_dark, light, term, lit, py_debug>>
registryVars == <<reg_pos, load_pc, import_error, types_names>>
presetsVars == <<colors, call, weights, fitted, result, lightVars, registryVars>>
vars == <<rsVars, modelsVars, presetsVars>>

(***************************************************************************)
(* Bounds                                                                  *)
(***************************************************************************)
MaxArgs == 2

(***************************************************************************)
(* Generic helpers: Python built-ins                                       *)
(***************************************************************************)
Digit == <<"0", "1", "2", "3", "4", "5", "6", "7", "8", "9">>

\* str(n) for an int n >= 0
RECURSIVE PyStr(_)
PyStr(n) == IF n < 10 THEN <<Digit[n + 1]>>
            ELSE PyStr(n \div 10) \o <<Digit[(n % 10) + 1]>>

\* int(s) for a non-empty string of decimal digits
DigitValue(c) == CHOOSE d \in 0..9 : Digit[d + 1] = c
RECURSIVE PyInt(_)
PyInt(s) == IF Len(s) = 1 THEN DigitValue(s[1])
            ELSE 10 * PyInt(SubSeq(s, 1, Len(s) - 1)) + DigitValue(s[Len(s)])

\* s.split(sep) for a one-character sep
RECURSIVE PySplit(_, _)
PySplit(s, sep) ==
    IF \A i \in 1..Len(s) : s[i] # sep THEN <<s>>
    ELSE LET i == CHOOSE k \in 1..Len(s) :
                     s[k] = sep /\ \A j \in 1..(k - 1) : s[j] # sep
         IN <<SubSeq(s, 1, i - 1)>> \o PySplit(SubSeq(s, i + 1, Len(s)), sep)

\* sep.join(parts)
RECURSIVE PyJoin(_, _)
PyJoin(parts, sep) ==
    IF parts = <<>> THEN <<>>
    ELSE IF Len(parts) = 1 THEN parts[1]
    ELSE parts[1] \o sep \o PyJoin(Tail(parts), sep)

\* a < b for two tuples of ints (lexicographic, a proper prefix is smaller)
RECURSIVE TupleLess(_, _)
TupleLess(a, b) ==
    IF b = <<>> THEN FALSE
    ELSE IF a = <<>> THEN TRUE
    ELSE IF a[1] # b[1] THEN a[1] < b[1]
    ELSE TupleLess(Tail(a), Tail(b))

(***************************************************************************)
(* rs.py: run_rust                                                         *)
(***************************************************************************)
Systems == {"Windows", "Darwin", "Linux"}
WinMajors == {5, 6, 10}
MacVersions == {<<>>, <<9, 2, 2>>, <<10>>, <<10, 9>>, <<10, 9, 5>>, <<10, 11>>,
                <<10, 11, 6>>, <<10, 12>>, <<10, 12, 6>>, <<10, 15, 7>>,
                <<11, 0>>, <<14, 2, 1>>}
EnvNames == {"HYFETCH_DONT_WARN_RUST", "TERM"}
EnvValues == {"", "1"}
ArgWords == {"-p", "rainbow"}
BoundedSeq(S, n) == UNION {[1..k -> S] : k \in 0..n}

\* platform.mac_ver()[0]: the release as a dotted string, '' when unknown
mac_ver == PyJoin([i \in 1..Len(macVersion) |-> PyStr(macVersion[i])], <<".">>)

NoReason == [fmt |-> "None", mac_ver |-> <<>>]
WindowsReason ==
    [fmt |-> "&cWindows < 10 detected, falling back to python version since rust 1.76+ do not support it.",
     mac_ver |-> <<>>]
MacReason(v) ==
    [fmt |-> "&cmacOS {mac_ver} detected, falling back to python version since rust 1.74+ do not support it.",
     mac_ver |-> v]
MissingReason ==
    [fmt |-> "&cThe executable for hyfetch v2 (rust) is not found, falling back to legacy v1.99.(inf) (python).",
     mac_ver |-> <<>>]

\* tuple(map(int, mac_ver.split('.'))) < (10, 12)
MacTooOld(v) ==
    LET parts == PySplit(v, ".")
        t == [i \in 1..Len(parts) |-> PyInt(parts[i])]
    IN TupleLess(t, <<10, 12>>)

\* lines 14-24: the if / elif on the platform
PlatformReason ==
    IF system = "Windows" /\ winMajor < 10 THEN WindowsReason
    ELSE IF system = "Darwin"
         THEN IF mac_ver # <<>> /\ MacTooOld(mac_ver) THEN MacReason(mac_ver)
              ELSE NoReason
         ELSE NoReason

\* line 27: SRC / 'rust' / ('hyfetch.exe' if Windows else 'hyfetch'), as str()
\* renders it ("<SRC>" stands for the installation root)
ExePath == IF system = "Windows" THEN "<SRC>\\rust\\hyfetch.exe" ELSE "<SRC>/rust/hyfetch"

\* lines 28-29
ReasonAfterLookup(r) == IF r = NoReason /\ ~binExists THEN MissingReason ELSE r

\* line 32: 'HYFETCH_DONT_WARN_RUST' not in os.environ
\* faulty variant: the variable is tested for a non-empty value, not for presence
ShouldWarn_TruthyMut ==
    ~("HYFETCH_DONT_WARN_RUST" \in DOMAIN environ /\ environ["HYFETCH_DONT_WARN_RUST"] # "")
ShouldWarn == "HYFETCH_DONT_WARN_RUST" \notin DOMAIN environ

\* line 39: [str(pd), *sys.argv[1:]]
ExecArgs == <<pd>> \o SubSeq(argv, 2, Len(argv))

\* one call made by the launcher: printc(text), run_py(), os.execv(path, args)
Event(op, path, args, text) == [op |-> op, path |-> path, args |-> args, text |-> text]

RsIdle ==
    /\ system = "Linux" /\ winMajor = 0 /\ macVersion = <<>> /\ binExists = TRUE
    /\ existsRaises = FALSE /\ binExecutable = TRUE
    /\ environ = <<>> /\ argv = <<>> /\ asMain = FALSE
    /\ pc = "idle" /\ reason = NoReason /\ pd = "" /\ events = <<>>
    /\ exitStatus = -1 /\ interruptedAt = "none"
ModelsIdle ==
    /\ hex_colors = <<>> /\ built = [kind |-> "idle"]
    /\ custom_presets = [none |-> TRUE, items |-> <<>>] /\ profiles = [kind |-> "idle"]
RegistryIdle ==
    /\ reg_pos = 0 /\ load_pc = "idle" /\ import_error = "none" /\ types_names = {}

PresetsIdle ==
    /\ colors = <<>> /\ call = [op |-> "idle"] /\ weights = <<>> /\ fitted = <<>>
    /\ result = [kind |-> "idle"]
    /\ use_overlay = FALSE /\ light_dark = <<>> /\ light = 0
    /\ term = [none |-> TRUE, s |-> <<>>] /\ lit = [kind |-> "idle"]
    /\ py_debug = TRUE
    /\ RegistryIdle

InitRs ==
    /\ system \in Systems
    /\ winMajor \in (IF system = "Windows" THEN WinMajors ELSE {0})
    /\ macVersion \in (IF system = "Darwin" THEN MacVersions ELSE {<<>>})
    /\ binExists \in BOOLEAN
    /\ existsRaises \in BOOLEAN
    /\ binExecutable \in (IF binExists /\ ~existsRaises THEN BOOLEAN ELSE {FALSE})
    /\ environ \in UNION {[S -> EnvValues] : S \in SUBSET EnvNames}
    /\ argv \in {<<"hyfetch">> \o a : a \in BoundedSeq(ArgWords, MaxArgs)}
    /\ asMain \in BOOLEAN
    /\ pc = "platform_check"
    /\ reason = NoReason
    /\ pd = ""
    /\ events = <<>>
    /\ exitStatus = -1
    /\ interruptedAt = "none"
    /\ ModelsIdle
    /\ PresetsIdle

rsInputs == <<system, winMajor, macVersion, binExists, existsRaises, binExecutable, environ,
              argv, asMain>>

\* lines 14-24
CheckPlatform ==
    /\ pc = "platform_check"
    /\ reason' = PlatformReason
    /\ pc' = "find_exe"
    /\ UNCHANGED <<rsInputs, pd, events, exitStatus, interruptedAt, modelsVars, presetsVars>>

\* lines 27-29: pd.exists() is called only when no reason is set yet ("not
\* reason and ..."); the OSError it raises for a path that cannot be searched
\* leaves run_rust, is not caught by lines 43-47, and ends the entry point
\* with status 1
FindExecutable ==
    /\ pc = "find_exe"
    /\ pd' = ExePath
    /\ IF reason = NoReason /\ existsRaises
       THEN /\ pc' = "lookup_failed"
            /\ exitStatus' = IF asMain THEN 1 ELSE exitStatus
            /\ UNCHANGED reason
       ELSE /\ reason' = ReasonAfterLookup(reason)
            /\ pc' = "dispatch"
            /\ UNCHANGED exitStatus
    /\ UNCHANGED <<rsInputs, events, interruptedAt, modelsVars, presetsVars>>

\* lines 31-34: if reason: the warning, unless the variable is in os.environ
Warn ==
    /\ pc = "dispatch"
    /\ reason # NoReason
    /\ events' = IF ShouldWarn
                 THEN Append(events, Event("printc", "", <<>>, "warning"))
                 ELSE events
    /\ pc' = "call_run_py"
    /\ UNCHANGED <<rsInputs, reason, pd, exitStatus, interruptedAt, modelsVars, presetsVars>>

\* line 35: run_py() is entered
CallRunPy ==
    /\ pc = "call_run_py"
    /\ events' = Append(events, Event("run_py", "", <<>>, ""))
    /\ pc' = "in_run_py"
    /\ UNCHANGED <<rsInputs, reason, pd, exitStatus, interruptedAt, modelsVars, presetsVars>>

\* lines 35-36: run_py() returns, then run_rust returns
ReturnFromRunPy ==
    /\ pc = "in_run_py"
    /\ pc' = "returned"
    /\ UNCHANGED <<rsInputs, reason, pd, events, exitStatus, interruptedAt, modelsVars, presetsVars>>

\* line 39: os.execv replaces the process image; when the file exists but
\* cannot be executed (no execute permission, a directory, not an executable
\* format) it raises OSError instead: the exception leaves run_rust, is not
\* caught by lines 43-47, and ends the entry point with status 1
Execv ==
    /\ pc = "dispatch"
    /\ reason = NoReason
    /\ events' = Append(events, Event("execv", pd, ExecArgs, ""))
    /\ pc' = IF binExecutable THEN "replaced" ELSE "execv_failed"
    /\ exitStatus' = IF ~binExecutable /\ asMain THEN 1 ELSE exitStatus
    /\ UNCHANGED <<rsInputs, reason, pd, interruptedAt, modelsVars, presetsVars>>

\* a KeyboardInterrupt raised while run_rust runs: lines 43-45 catch it when
\* the module is the entry point, otherwise it leaves run_rust to its caller
InRunRust == pc \in {"platform_check", "find_exe", "dispatch", "call_run_py", "in_run_py"}
Interrupt ==
    /\ InRunRust
    /\ interruptedAt' = pc
    /\ pc' = IF asMain THEN "except" ELSE "propagated"
    /\ UNCHANGED <<rsInputs, reason, pd, events, exitStatus, modelsVars, presetsVars>>

\* line 46: printc('&cThe program is interrupted by ^C, exiting...')
HandlePrint ==
    /\ pc = "except"
    /\ events' = Append(events, Event("printc", "", <<>>, "interrupted"))
    /\ pc' = "except_exit"
    /\ UNCHANGED <<rsInputs, reason, pd, exitStatus, interruptedAt, modelsVars, presetsVars>>

\* line 47: exit(0)
HandleExit ==
    /\ pc = "except_exit"
    /\ exitStatus' = 0
    /\ pc' = "exited"
    /\ UNCHANGED <<rsInputs, reason, pd, events, interruptedAt, modelsVars, presetsVars>>

\* a second KeyboardInterrupt, raised inside the except block, before the
\* message is printed or between the message and exit(0): no handler
\* encloses it
InterruptInHandler ==
    /\ pc \in {"except", "except_exit"}
    /\ pc' = "uncaught"
    /\ UNCHANGED <<rsInputs, reason, pd, events, exitStatus, interruptedAt, modelsVars, presetsVars>>

NextRs ==
    \/ CheckPlatform
    \/ FindExecutable
    \/ Warn
    \/ CallRunPy
    \/ ReturnFromRunPy
    \/ Execv
    \/ Interrupt
    \/ HandlePrint
    \/ HandleExit
    \/ InterruptInHandler

SpecRs == InitRs /\ [][NextRs]_vars

(***************************************************************************)
(* models.py: build_hex_color_profile, Config.custom_preset_profiles       *)
(***************************************************************************)
\* the literal '0123456789abcdefABCDEF' of line 17
HexChars == <<"0", "1", "2", "3", "4", "5", "6", "7", "8", "9",
              "a", "b", "c", "d", "e", "f", "A", "B", "C", "D", "E", "F">>

\* c in s, for a one-character c
CharIn(c, s) == \E i \in 1..Len(s) : s[i] = c

\* s.startswith(prefix)
StartsWith(s, prefix) == Len(s) >= Len(prefix) /\ SubSeq(s, 1, Len(prefix)) = prefix

\* lines 15-17: the condition a colour must meet
\* faulty variant: upper-case hex digits are left out of the digit string
IsValidHex_LowerOnlyMut(color) ==
    /\ StartsWith(color, <<"#">>)
    /\ Len(color) \in {4, 7}
    /\ \A i \in 2..Len(color) : CharIn(color[i], SubSeq(HexChars, 1, 16))
IsValidHex(color) ==
    /\ StartsWith(color, <<"#">>)
    /\ Len(color) \in {4, 7}
    /\ \A i \in 2..Len(color) : CharIn(color[i], HexChars)

\* what a call does: return a value, or raise an exception with a message
NoValue == [raw |-> <<>>, colors |-> <<>>]
NoMsg == [fmt |-> "", preset_name |-> "", color |-> <<>>, err |-> ""]
Return(v) == [kind |-> "return", value |-> v, msg |-> NoMsg]
Raise(exc, m) == [kind |-> exc, value |-> NoValue, msg |-> m]

\* RGB.from_hex(c): the colour of a hex literal, kept as a term (color_util is
\* not part of the sources; it accepts the 3- and 6-digit forms after '#').
\* It is applied only to literals of that form: those build_hex_color_profile
\* has validated, and '#000000' / '#FFFFFF'.
FromHex(c) == [from_hex |-> c]

\* presets.py lines 24-29: ColorProfile(colors) for a list of strings
ColorProfileInit(cs) ==
    IF cs = <<>> THEN Raise("IndexError", NoMsg)
    ELSE Return([raw |-> cs, colors |-> [i \in 1..Len(cs) |-> FromHex(cs[i])]])

\* lines 12-20
RECURSIVE ValidateFrom(_, _)
ValidateFrom(cs, i) ==
    IF i > Len(cs) THEN ColorProfileInit(cs)
    ELSE IF ~IsValidHex(cs[i])
         THEN Raise("ValueError", [fmt |-> "invalid hex color: {color}",
                                   preset_name |-> "", color |-> cs[i], err |-> ""])
         ELSE ValidateFrom(cs, i + 1)
build_hex_color_profile(cs) == ValidateFrom(cs, 1)

\* a dict is the sequence of its <<key, value>> items in insertion order
DictKeys(d) == [i \in 1..Len(d) |-> d[i][1]]
DictSet(d, k, v) ==
    IF \E i \in 1..Len(d) : d[i][1] = k
    THEN [i \in 1..Len(d) |-> IF d[i][1] = k THEN <<k, v>> ELSE d[i]]
    ELSE Append(d, <<k, v>>)

\* lines 50-56: the loop over custom_presets.items(), from item i on
\* faulty variant: an entry that fails to build is skipped (except: continue)
RECURSIVE PresetLoop_SkipInvalidMut(_, _, _)
PresetLoop_SkipInvalidMut(items, i, acc) ==
    IF i > Len(items) THEN [kind |-> "return", value |-> acc, msg |-> NoMsg]
    ELSE LET r == build_hex_color_profile(items[i][2]) IN
         IF r.kind = "return"
         THEN PresetLoop_SkipInvalidMut(items, i + 1, DictSet(acc, items[i][1], r.value))
         ELSE PresetLoop_SkipInvalidMut(items, i + 1, acc)
RECURSIVE PresetLoop(_, _, _)
PresetLoop(items, i, acc) ==
    IF i > Len(items) THEN [kind |-> "return", value |-> acc, msg |-> NoMsg]
    ELSE LET r == build_hex_color_profile(items[i][2]) IN
         IF r.kind = "return"
         THEN PresetLoop(items, i + 1, DictSet(acc, items[i][1], r.value))
         ELSE IF r.kind = "ValueError"
         THEN [kind |-> "ValueError", value |-> <<>>,
               msg |-> [fmt |-> "failed to validate custom preset key \"{preset_name}\": {err}",
                        preset_name |-> items[i][1], color |-> r.msg.color,
                        err |-> r.msg.fmt]]
         ELSE [kind |-> r.kind, value |-> <<>>, msg |-> r.msg]

\* lines 47-57
custom_preset_profiles(cp) ==
    IF ~cp.none /\ cp.items # <<>>
    THEN PresetLoop(cp.items, 1, <<>>)
    ELSE [kind |-> "return", value |-> <<>>, msg |-> NoMsg]

MaxStrLen == 7
MaxListLen == 2
MaxPresets == 3

\* characters of the exhaustively enumerated strings
Alphabet == {"#", "0", "a", "F", "g"}
SampleLiterals ==
    {<<"#", "f", "f", "f">>, <<"#", "0", "1", "2", "3", "4", "5">>,
     <<"#", "6", "7", "8", "9", "a", "b">>, <<"#", "c", "d", "e", "f", "A", "B">>,
     <<"#", "C", "D", "E", "F", "0", "0">>, <<"#", "g", "g", "g">>,
     <<"f", "f", "f">>, <<"#", "f", "f">>, <<"#", "G", "0", "0">>,
     <<"#", "f", "f", "f", " ">>, <<>>}
HexInputs ==
    {<<s>> : s \in BoundedSeq(Alphabet, MaxStrLen)}
        \cup BoundedSeq(SampleLiterals, MaxListLen)

PresetNames == {"mine", "flag", "x", "y"}
PresetLists ==
    {<<<<"#", "f", "f", "f">>, <<"#", "0", "0", "0", "0", "0", "0">>>>,
     <<<<"#", "A", "b", "C">>>>,
     <<<<"#", "f", "f", "f">>, <<"#", "g", "g", "g">>, <<"f", "f", "f">>>>,
     <<<<"#", "f", "f">>>>,
     <<<<"#", "1", "2", "3", "4", "5">>, <<"#", "f", "f", "f">>>>,
     <<>>}
PresetInputs ==
    {[none |-> TRUE, items |-> <<>>]} \cup
    {[none |-> FALSE, items |-> [i \in 1..Len(ks) |-> <<ks[i], vs[i]>>]] :
        <<ks, vs>> \in UNION {
            {k \in [1..n -> PresetNames] : \A i, j \in 1..n : i # j => k[i] # k[j]}
                \X [1..n -> PresetLists] : n \in 0..MaxPresets}}

InitModels ==
    /\ \/ hex_colors \in HexInputs /\ custom_presets = [none |-> TRUE, items |-> <<>>]
       \/ hex_colors = <<>> /\ custom_presets \in PresetInputs
    /\ built = [kind |-> "idle"]
    /\ profiles = [kind |-> "idle"]
    /\ RsIdle
    /\ PresetsIdle

NotCalled == built.kind = "idle" /\ profiles.kind = "idle"

\* build_hex_color_profile(hex_colors)
BuildHexColorProfile ==
    /\ NotCalled
    /\ built' = build_hex_color_profile(hex_colors)
    /\ UNCHANGED <<hex_colors, custom_presets, profiles, rsVars, presetsVars>>

\* Config(custom_presets=custom_presets).custom_preset_profiles()
CustomPresetProfiles ==
    /\ NotCalled
    /\ profiles' = custom_preset_profiles(custom_presets)
    /\ UNCHANGED <<hex_colors, custom_presets, built, rsVars, presetsVars>>

NextModels == BuildHexColorProfile \/ CustomPresetProfiles

SpecModels == InitModels /\ [][NextModels]_vars

(***************************************************************************)
(* presets.py: ColorProfile.with_weights, with_length, color_text          *)
(***************************************************************************)
MaxColors == 5
MaxLength == 10
MaxTextLen == 4

\* the reset sequence '\033[39;49m'
Reset == <<"ESC", "[", "3", "9", ";", "4", "9", "m">>

\* RGB.to_ansi(foreground): ESC[38;2;R;G;Bm, or ESC[48;2;R;G;Bm for a
\* background block (color_util is not part of the sources)
to_ansi(c, foreground) ==
    <<"ESC", "[">> \o (IF foreground THEN <<"3", "8">> ELSE <<"4", "8">>)
        \o <<";", "2", ";">> \o PyStr(c[1]) \o <<";">> \o PyStr(c[2])
        \o <<";">> \o PyStr(c[3]) \o <<"m">>

\* [c] * w
RECURSIVE Repeat(_, _)
Repeat(c, w) == IF w <= 0 THEN <<>> ELSE <<c>> \o Repeat(c, w - 1)

\* lines 31-38: each colour repeated by its weight, in order
RECURSIVE WeightsFrom(_, _, _)
WeightsFrom(cs, ws, i) ==
    IF i > Len(ws) THEN <<>>
    ELSE Repeat(cs[i], ws[i]) \o WeightsFrom(cs, ws, i + 1)
with_weights(cs, ws) == WeightsFrom(cs, ws, 1)

\* lines 62-68: the while loop; Python's weights[border_i] is ws[border_i + 1]
\* and weights[-(border_i + 1)] is ws[Len(ws) - border_i]
\* faulty variant: the extra units are handed out from the centre outwards
RECURSIVE BorderLoop_FromCenterMut(_, _, _)
BorderLoop_FromCenterMut(ws, extras, border_i) ==
    IF extras > 0
    THEN LET c == (Len(ws) \div 2) - border_i
             w1 == [ws EXCEPT ![c] = @ + 1]
             w2 == [w1 EXCEPT ![Len(ws) + 1 - c] = @ + 1]
         IN BorderLoop_FromCenterMut(w2, extras - 2, border_i + 1)
    ELSE ws
RECURSIVE BorderLoop(_, _, _)
BorderLoop(ws, extras, border_i) ==
    IF extras > 0
    THEN LET w1 == [ws EXCEPT ![border_i + 1] = @ + 1]
             w2 == [w1 EXCEPT ![Len(ws) - border_i] = @ + 1]
         IN BorderLoop(w2, extras - 2, border_i + 1)
    ELSE ws

\* lines 47-68: the weights with_length computes
\* faulty variant: an odd remainder is decremented but the centre colour gets nothing
LengthWeights_NoCenterMut(cs, length) ==
    LET preset_len == Len(cs)
        repeats == length \div preset_len
        extras == length % preset_len
    IN BorderLoop([i \in 1..preset_len |-> repeats],
                  IF extras % 2 = 1 THEN extras - 1 ELSE extras, 0)
\* faulty variant: the centre index is taken as (preset_len - 1) // 2
LengthWeights_LowCenterMut(cs, length) ==
    LET preset_len == Len(cs)
        center_i == (preset_len - 1) \div 2
        repeats == length \div preset_len
        ws0 == [i \in 1..preset_len |-> repeats]
        extras == length % preset_len
    IN IF extras % 2 = 1
       THEN BorderLoop([ws0 EXCEPT ![center_i + 1] = @ + 1], extras - 1, 0)
       ELSE BorderLoop(ws0, extras, 0)
LengthWeights(cs, length) ==
    LET preset_len == Len(cs)
        center_i == preset_len \div 2
        repeats == length \div preset_len
        ws0 == [i \in 1..preset_len |-> repeats]
        extras == length % preset_len
    IN IF extras % 2 = 1
       THEN BorderLoop([ws0 EXCEPT ![center_i + 1] = @ + 1], extras - 1, 0)
       ELSE BorderLoop(ws0, extras, 0)

\* lines 40-70
with_length(cs, length) == with_weights(cs, LengthWeights(cs, length))

\* lines 83-89: the loop of color_text from character i (0-based) on; reading
\* fit[i] past the end of the list raises IndexError
\* faulty variant: the guard i > 0 is left out, so that at i = 0 Python's
\* txt[i - 1] reads the last character of the text
RECURSIVE ColorLoop_NoIndexGuardMut(_, _, _, _, _, _)
ColorLoop_NoIndexGuardMut(fit, txt, foreground, space_only, i, acc) ==
    IF i >= Len(txt) THEN [kind |-> "return", text |-> acc]
    ELSE LET t == txt[i + 1]
             prev == IF i > 0 THEN txt[i] ELSE txt[Len(txt)]
         IN
         IF space_only /\ t # " "
         THEN ColorLoop_NoIndexGuardMut(fit, txt, foreground, space_only, i + 1,
                        (IF prev = " " THEN acc \o Reset ELSE acc) \o <<t>>)
         ELSE IF i + 1 > Len(fit)
              THEN [kind |-> "IndexError", text |-> <<>>]
              ELSE ColorLoop_NoIndexGuardMut(fit, txt, foreground, space_only, i + 1,
                             acc \o to_ansi(fit[i + 1], foreground) \o <<t>>)
RECURSIVE ColorLoop(_, _, _, _, _, _)
ColorLoop(fit, txt, foreground, space_only, i, acc) ==
    IF i >= Len(txt) THEN [kind |-> "return", text |-> acc]
    ELSE LET t == txt[i + 1] IN
         IF space_only /\ t # " "
         THEN ColorLoop(fit, txt, foreground, space_only, i + 1,
                        (IF i > 0 /\ txt[i] = " " THEN acc \o Reset ELSE acc) \o <<t>>)
         ELSE IF i + 1 > Len(fit)
              THEN [kind |-> "IndexError", text |-> <<>>]
              ELSE ColorLoop(fit, txt, foreground, space_only, i + 1,
                             acc \o to_ansi(fit[i + 1], foreground) \o <<t>>)

\* lines 72-92
\* faulty variant: the trailing reset is appended only after a non-empty text
color_text_NoResetOnEmptyMut(cs, txt, foreground, space_only) ==
    LET r == ColorLoop(with_length(cs, Len(txt)), txt, foreground, space_only, 0, <<>>)
    IN IF r.kind = "return" /\ txt # <<>>
       THEN [kind |-> "return", text |-> r.text \o Reset]
       ELSE r
color_text(cs, txt, foreground, space_only) ==
    LET r == ColorLoop(with_length(cs, Len(txt)), txt, foreground, space_only, 0, <<>>)
    IN IF r.kind = "return"
       THEN [kind |-> "return", text |-> r.text \o Reset]
       ELSE r

LightIdle ==
    /\ use_overlay = FALSE /\ light_dark = <<>> /\ light = 0
    /\ term = [none |-> TRUE, s |-> <<>>] /\ lit = [kind |-> "idle"]
    /\ py_debug = TRUE

\* profiles: n distinct colours for each n, and the palindromic 'transgender'
RGBOf(i) == <<(i * 53) % 256, (i * 101) % 256, (i * 197) % 256>>
Transgender == <<<<85, 205, 253>>, <<246, 170, 183>>, <<255, 255, 255>>,
                 <<246, 170, 183>>, <<85, 205, 253>>>>
Profiles == {[i \in 1..n |-> RGBOf(i)] : n \in 1..MaxColors} \cup {Transgender}
TextChars == {" ", "a", "b"}

NoCall == [op |-> "idle", length |-> 0, txt |-> <<>>, foreground |-> TRUE,
           space_only |-> FALSE]

InitPresets ==
    /\ colors \in Profiles
    /\ call = NoCall
    /\ weights = <<>>
    /\ fitted = <<>>
    /\ result = [kind |-> "idle", text |-> <<>>]
    /\ LightIdle
    /\ RegistryIdle
    /\ RsIdle
    /\ ModelsIdle

\* profile.with_length(length)
WithLength ==
    \E length \in 0..MaxLength :
        /\ call = NoCall
        /\ call' = [NoCall EXCEPT !.op = "with_length", !.length = length]
        /\ weights' = LengthWeights(colors, length)
        /\ fitted' = with_length(colors, length)
        /\ result' = [kind |-> "idle", text |-> <<>>]
        /\ UNCHANGED <<colors, lightVars, registryVars, rsVars, modelsVars>>

\* profile.color_text(txt, foreground, space_only)
ColorText ==
    \E txt \in BoundedSeq(TextChars, MaxTextLen), foreground, space_only \in BOOLEAN :
        /\ call = NoCall
        /\ call' = [op |-> "color_text", length |-> Len(txt), txt |-> txt,
                    foreground |-> foreground, space_only |-> space_only]
        /\ weights' = LengthWeights(colors, Len(txt))
        /\ fitted' = with_length(colors, Len(txt))
        /\ result' = color_text(colors, txt, foreground, space_only)
        /\ UNCHANGED <<colors, lightVars, registryVars, rsVars, modelsVars>>

NextPresets == WithLength \/ ColorText

SpecPresets == InitPresets /\ [][NextPresets]_vars

(***************************************************************************)
(* presets.py: ColorProfile.set_light_raw, set_light_dl, overlay_raw,      *)
(* overlay_dl                                                              *)
(*                                                                         *)
(* A lightness (0-1) is an integer number of hundredths.  What RGB.set_light*)
(* and RGB.overlay compute is not part of the sources: a transformed       *)
(* colour is kept as the call that makes it.                               *)
(***************************************************************************)
UpperCase == <<"A", "B", "C", "D", "E", "F", "G", "H", "I", "J", "K", "L", "M",
               "N", "O", "P", "Q", "R", "S", "T", "U", "V", "W", "X", "Y", "Z">>
LowerCase == <<"a", "b", "c", "d", "e", "f", "g", "h", "i", "j", "k", "l", "m",
               "n", "o", "p", "q", "r", "s", "t", "u", "v", "w", "x", "y", "z">>
\* str.lower()
PyLower(s) ==
    [i \in 1..Len(s) |->
        IF \E k \in 1..Len(UpperCase) : UpperCase[k] = s[i]
        THEN LowerCase[CHOOSE k \in 1..Len(UpperCase) : UpperCase[k] = s[i]]
        ELSE s[i]]
PyAbs(x) == IF x < 0 THEN -x ELSE x

LIGHT == <<"l", "i", "g", "h", "t">>
DARK == <<"d", "a", "r", "k">>
\* an optional string argument: None, or a string
PyNone == [none |-> TRUE, s |-> <<>>]
PyStrArg(s) == [none |-> FALSE, s |-> s]

\* lines 125, 144: term or GLOBAL_CFG.light_dark() (None and '' are falsy)
TermOrDetected(t) == IF ~t.none /\ t.s # <<>> THEN t.s ELSE light_dark

\* RGB.set_light(light, at_least, at_most) and RGB.overlay(color, alpha) of
\* colour c, as terms
SetLightOf(c, l, at_least, at_most) ==
    [method |-> "set_light", c |-> c, light |-> l,
     at_least |-> at_least, at_most |-> at_most]
OverlayOf(c, color, alpha) ==
    [method |-> "overlay", c |-> c, color |-> color, alpha |-> alpha]

\* lines 103-112
set_light_raw(cs, l, at_least, at_most) ==
    [kind |-> "return",
     colors |-> [i \in 1..Len(cs) |-> SetLightOf(cs[i], l, at_least, at_most)]]

\* lines 130-138
overlay_raw(cs, color, alpha) ==
    [kind |-> "return",
     colors |-> [i \in 1..Len(cs) |-> OverlayOf(cs[i], color, alpha)]]

\* line 148: '#000000' if term.lower() == 'light' else '#FFFFFF'
OverlayHex(t) ==
    IF PyLower(t) = LIGHT THEN <<"#", "0", "0", "0", "0", "0", "0">>
    ELSE <<"#", "F", "F", "F", "F", "F", "F">>

\* lines 140-149; the assert of line 145 is executed only when __debug__
overlay_dl(cs, l, t) ==
    LET tm == TermOrDetected(t) IN
    IF py_debug /\ PyLower(tm) \notin {LIGHT, DARK}
    THEN [kind |-> "AssertionError", colors |-> <<>>]
    ELSE overlay_raw(cs, FromHex(OverlayHex(tm)), PyAbs(l - 50) * 2)

\* line 127: (True, None) if term.lower() == 'dark' else (None, True)
\* faulty variant: the two clamps are swapped
ClampFor_SwappedMut(t) ==
    IF PyLower(t) = DARK THEN <<"None", "True">> ELSE <<"True", "None">>
ClampFor(t) ==
    IF PyLower(t) = DARK THEN <<"True", "None">> ELSE <<"None", "True">>

\* lines 114-128; the assert of line 126 is executed only when __debug__
set_light_dl(cs, l, t) ==
    IF use_overlay THEN overlay_dl(cs, l, t)
    ELSE LET tm == TermOrDetected(t) IN
         IF py_debug /\ PyLower(tm) \notin {LIGHT, DARK}
         THEN [kind |-> "AssertionError", colors |-> <<>>]
         ELSE set_light_raw(cs, l, ClampFor(tm)[1], ClampFor(tm)[2])

LightLevels == {0, 25, 50, 65, 100}
Terms == {PyNone, PyStrArg(<<>>), PyStrArg(LIGHT), PyStrArg(DARK),
          PyStrArg(<<"L", "i", "g", "h", "t">>), PyStrArg(<<"D", "A", "R", "K">>),
          PyStrArg(<<"b", "l", "u", "e">>), PyStrArg(<<"d", "a", "r", "k", " ">>),
          PyStrArg(<<"l", "i", "g", "h", "t", "e", "r">>)}

InitLight ==
    /\ colors \in Profiles
    /\ use_overlay \in BOOLEAN
    /\ light_dark \in {LIGHT, DARK}
    /\ py_debug \in BOOLEAN
    /\ light = 0
    /\ term = PyNone
    /\ lit = [kind |-> "idle"]
    /\ call = [op |-> "idle"] /\ weights = <<>> /\ fitted = <<>>
    /\ result = [kind |-> "idle"]
    /\ RegistryIdle
    /\ RsIdle
    /\ ModelsIdle

\* profile.set_light_dl(light, term)
SetLightDl ==
    \E l \in LightLevels, t \in Terms :
        /\ lit.kind = "idle"
        /\ light' = l
        /\ term' = t
        /\ lit' = set_light_dl(colors, l, t)
        /\ UNCHANGED <<colors, call, weights, fitted, result, use_overlay, light_dark,
                       py_debug, registryVars, rsVars, modelsVars>>

NextLight == SetLightDl

SpecLight == InitLight /\ [][NextLight]_vars

(***************************************************************************)
(* presets.py: the load of the module, and the registry PRESETS            *)
(*                                                                         *)
(* The load starts with the imports: line 7 takes LightDark and            *)
(* ColorSpacing from hyfetch.types and raises ImportError when one of them *)
(* is not bound there.  types.py binds no ColorSpacing, so the load of     *)
(* presets.py ends at line 7 and PRESETS is never bound.                   *)
(***************************************************************************)
\* types.py lines 1-7: the names the module binds
TypesNames == {"annotations", "Literal", "AnsiMode", "LightDark", "BackendLiteral"}
\* presets.py line 7: from .types import LightDark, ColorSpacing
TypesImported == {"LightDark", "ColorSpacing"}

InitLoad ==
    /\ types_names = TypesNames
    /\ load_pc = "import_types"
    /\ import_error = "none"
    /\ reg_pos = 0
    /\ colors = <<>> /\ call = [op |-> "idle"] /\ weights = <<>> /\ fitted = <<>>
    /\ result = [kind |-> "idle"]
    /\ LightIdle
    /\ RsIdle
    /\ ModelsIdle

\* line 7: the import fails with ImportError for a name hyfetch.types does
\* not bind, and nothing after it is executed
ImportTypes ==
    /\ load_pc = "import_types"
    /\ IF TypesImported \subseteq types_names
       THEN load_pc' = "imported" /\ UNCHANGED import_error
       ELSE load_pc' = "failed" /\ import_error' = "ImportError"
    /\ UNCHANGED <<reg_pos, types_names, colors, call, weights, fitted, result, lightVars,
                   rsVars, modelsVars>>

NextLoad == ImportTypes

SpecLoad == InitLoad /\ [][NextLoad]_vars

(***************************************************************************)
(* presets.py: the entries of PRESETS as they are written in the source    *)
(* (lines 167-987), each with its name, its colour literals in order and,  *)
(* for an entry written ColorProfile(ColorProfile([...]).with_weights(w)), *)
(* the weights w (<<>> otherwise).  An entry's literals are examined with  *)
(* the hex validation of models.py, build_hex_color_profile.               *)
(***************************************************************************)
PRESETS == <<
    [name |-> "rainbow", weights |-> <<>>,
     literals |-> <<<<"#", "E", "5", "0", "0", "0", "0">>,
                    <<"#", "F", "F", "8", "D", "0", "0">>,
                    <<"#", "F", "F", "E", "E", "0", "0">>,
                    <<"#", "0", "2", "8", "1", "2", "1">>,
                    <<"#", "0", "0", "4", "C", "F", "F">>,
                    <<"#", "7", "7", "0", "0", "8", "8">>>>],
    [name |-> "transgender", weights |-> <<>>,
     literals |-> <<<<"#", "5", "5", "C", "D", "F", "D">>,
                    <<"#", "F", "6", "A", "A", "B", "7">>,
                    <<"#", "F", "F", "F", "F", "F", "F">>,
                    <<"#", "F", "6", "A", "A", "B", "7">>,
                    <<"#", "5", "5", "C", "D", "F", "D">>>>],
    [name |-> "nonbinary", weights |-> <<>>,
     literals |-> <<<<"#", "F", "C", "F", "4", "3", "1">>,
                    <<"#", "F", "C", "F", "C", "F", "C">>,
                    <<"#", "9", "D", "5", "9", "D", "2">>,
                    <<"#", "2", "8", "2", "8", "2", "8">>>>],
    [name |-> "xenogender", weights |-> <<>>,
     literals |-> <<<<"#", "F", "F", "6", "6", "9", "2">>,
                    <<"#", "F", "F", "9", "A", "9", "8">>,
                    <<"#", "F", "F", "B", "8", "8", "3">>,
                    <<"#", "F", "B", "F", "F", "A", "8">>,
                    <<"#", "8", "5", "B", "C", "F", "F">>,
                    <<"#", "9", "D", "8", "5", "F", "F">>,
                    <<"#", "A", "5", "1", "0", "F", "F">>>>],
    [name |-> "agender", weights |-> <<>>,
     literals |-> <<<<"#", "0", "0", "0", "0", "0", "0">>,
                    <<"#", "B", "A", "B", "A", "B", "A">>,
                    <<"#", "F", "F", "F", "F", "F", "F">>,
                    <<"#", "B", "A", "F", "4", "8", "4">>,
                    <<"#", "F", "F", "F", "F", "F", "F">>,
                    <<"#", "B", "A", "B", "A", "B", "A">>,
                    <<"#", "0", "0", "0", "0", "0", "0">>>>],
    [name |-> "queer", weights |-> <<>>,
     literals |-> <<<<"#", "B", "5", "7", "F", "D", "D">>,
                    <<"#", "F", "F", "F", "F", "F", "F">>,
                    <<"#", "4", "9", "8", "2", "1", "E">>>>],
    [name |-> "genderfluid", weights |-> <<>>,
     literals |-> <<<<"#", "F", "E", "7", "6", "A", "2">>,
                    <<"#", "F", "F", "F", "F", "F", "F">>,
                    <<"#", "B", "F", "1", "2", "D", "7">>,
                    <<"#", "0", "0", "0", "0", "0", "0">>,
                    <<"#", "3", "0", "3", "C", "B", "E">>>>],
    [name |-> "bisexual", weights |-> <<>>,
     literals |-> <<<<"#", "D", "6", "0", "2", "7", "0">>,
                    <<"#", "9", "B", "4", "F", "9", "6">>,
                    <<"#", "0", "0", "3", "8", "A", "8">>>>],
    [name |-> "pansexual", weights |-> <<>>,
     literals |-> <<<<"#", "F", "F", "1", "C", "8", "D">>,
                    <<"#", "F", "F", "D", "7", "0", "0">>,
                    <<"#", "1", "A", "B", "3", "F", "F">>>>],
    [name |-> "polysexual", weights |-> <<>>,
     literals |-> <<<<"#", "F", "7", "1", "4", "B", "A">>,
                    <<"#", "0", "1", "D", "6", "6", "A">>,
                    <<"#", "1", "5", "9", "4", "F", "6">>>>],
    [name |-> "omnisexual", weights |-> <<>>,
     literals |-> <<<<"#", "F", "E", "9", "A", "C", "E">>,
                    <<"#", "F", "F", "5", "3", "B", "F">>,
                    <<"#", "2", "0", "0", "0", "4", "4">>,
                    <<"#", "6", "7", "6", "0", "F", "E">>,
                    <<"#", "8", "E", "A", "6", "F", "F">>>>],
    [name |-> "omniromantic", weights |-> <<>>,
     literals |-> <<<<"#", "F", "E", "C", "8", "E", "4">>,
                    <<"#", "F", "D", "A", "1", "D", "B">>,
                    <<"#", "8", "9", "7", "3", "9", "A">>,
                    <<"#", "A", "B", "A", "7", "F", "E">>,
                    <<"#", "B", "F", "C", "E", "F", "F">>>>],
    [name |-> "gay-men", weights |-> <<>>,
     literals |-> <<<<"#", "0", "7", "8", "D", "7", "0">>,
                    <<"#", "9", "8", "E", "8", "C", "1">>,
                    <<"#", "F", "F", "F", "F", "F", "F">>,
                    <<"#", "7", "B", "A", "D", "E", "2">>,
                    <<"#", "3", "D", "1", "A", "7", "8">>>>],
    [name |-> "lesbian", weights |-> <<>>,
     literals |-> <<<<"#", "D", "6", "2", "8", "0", "0">>,
                    <<"#", "F", "F", "9", "B", "5", "6">>,
                    <<"#", "F", "F", "F", "F", "F", "F">>,
                    <<"#", "D", "4", "6", "2", "A", "6">>,
                    <<"#", "A", "4", "0", "0", "6", "2">>>>],
    [name |-> "abrosexual", weights |-> <<>>,
     literals |-> <<<<"#", "4", "6", "D", "2", "9", "4">>,
                    <<"#", "A", "3", "E", "9", "C", "A">>,
                    <<"#", "F", "F", "F", "F", "F", "F">>,
                    <<"#", "F", "7", "8", "B", "B", "3">>,
                    <<"#", "E", "E", "1", "7", "6", "6">>>>],
    [name |-> "asexual", weights |-> <<>>,
     literals |-> <<<<"#", "0", "0", "0", "0", "0", "0">>,
                    <<"#", "A", "4", "A", "4", "A", "4">>,
                    <<"#", "F", "F", "F", "F", "F", "F">>,
                    <<"#", "8", "1", "0", "0", "8", "1">>>>],
    [name |-> "aromantic", weights |-> <<>>,
     literals |-> <<<<"#", "3", "B", "A", "7", "4", "0">>,
                    <<"#", "A", "8", "D", "4", "7", "A">>,
                    <<"#", "F", "F", "F", "F", "F", "F">>,
                    <<"#", "A", "B", "A", "B", "A", "B">>,
                    <<"#", "0", "0", "0", "0", "0", "0">>>>],
    [name |-> "aroace1", weights |-> <<>>,
     literals |-> <<<<"#", "E", "2", "8", "C", "0", "0">>,
                    <<"#", "E", "C", "C", "D", "0", "0">>,
                    <<"#", "F", "F", "F", "F", "F", "F">>,
                    <<"#", "6", "2", "A", "E", "D", "C">>,
                    <<"#", "2", "0", "3", "8", "5", "6">>>>],
    [name |-> "aroace2", weights |-> <<>>,
     literals |-> <<<<"#", "0", "0", "0", "0", "0", "0">>,
                    <<"#", "8", "1", "0", "0", "8", "1">>,
                    <<"#", "A", "4", "A", "4", "A", "4">>,
                    <<"#", "F", "F", "F", "F", "F", "F">>,
                    <<"#", "A", "8", "D", "4", "7", "A">>,
                    <<"#", "3", "B", "A", "7", "4", "0">>>>],
    [name |-> "aroace3", weights |-> <<>>,
     literals |-> <<<<"#", "3", "B", "A", "7", "4", "0">>,
                    <<"#", "A", "8", "D", "4", "7", "A">>,
                    <<"#", "F", "F", "F", "F", "F", "F">>,
                    <<"#", "A", "B", "A", "B", "A", "B">>,
                    <<"#", "0", "0", "0", "0", "0", "0">>,
                    <<"#", "A", "4", "A", "4", "A", "4">>,
                    <<"#", "F", "F", "F", "F", "F", "F">>,
                    <<"#", "8", "1", "0", "0", "8", "1">>>>],
    [name |-> "autosexual", weights |-> <<>>,
     literals |-> <<<<"#", "9", "9", "D", "9", "E", "A">>,
                    <<"#", "7", "F", "7", "F", "7", "F">>>>],
    [name |-> "intergender", weights |-> <<>>,
     literals |-> <<<<"#", "9", "0", "0", "D", "C", "2">>,
                    <<"#", "9", "0", "0", "D", "C", "2">>,
                    <<"#", "F", "F", "E", "5", "4", "F">>,
                    <<"#", "9", "0", "0", "D", "C", "2">>,
                    <<"#", "9", "0", "0", "D", "C", "2">>>>],
    [name |-> "greygender", weights |-> <<>>,
     literals |-> <<<<"#", "B", "3", "B", "3", "B", "3">>,
                    <<"#", "B", "3", "B", "3", "B", "3">>,
                    <<"#", "F", "F", "F", "F", "F", "F">>,
                    <<"#", "0", "6", "2", "3", "8", "3">>,
                    <<"#", "0", "6", "2", "3", "8", "3">>,
                    <<"#", "F", "F", "F", "F", "F", "F">>,
                    <<"#", "5", "3", "5", "3", "5", "3">>,
                    <<"#", "5", "3", "5", "3", "5", "3">>>>],
    [name |-> "akiosexual", weights |-> <<>>,
     literals |-> <<<<"#", "F", "9", "4", "8", "5", "E">>,
                    <<"#", "F", "E", "A", "0", "6", "A">>,
                    <<"#", "F", "E", "F", "4", "4", "C">>,
                    <<"#", "F", "F", "F", "F", "F", "F">>,
                    <<"#", "0", "0", "0", "0", "0", "0">>>>],
    [name |-> "bigender", weights |-> <<>>,
     literals |-> <<<<"#", "C", "4", "7", "9", "A", "2">>,
                    <<"#", "E", "D", "A", "5", "C", "D">>,
                    <<"#", "D", "6", "C", "7", "E", "8">>,
                    <<"#", "F", "F", "F", "F", "F", "F">>,
                    <<"#", "D", "6", "C", "7", "E", "8">>,
                    <<"#", "9", "A", "C", "7", "E", "8">>,
                    <<"#", "6", "D", "8", "2", "D", "1">>>>],
    [name |-> "demigender", weights |-> <<>>,
     literals |-> <<<<"#", "7", "F", "7", "F", "7", "F">>,
                    <<"#", "C", "4", "C", "4", "C", "4">>,
                    <<"#", "F", "B", "F", "F", "7", "5">>,
                    <<"#", "F", "F", "F", "F", "F", "F">>,
                    <<"#", "F", "B", "F", "F", "7", "5">>,
                    <<"#", "C", "4", "C", "4", "C", "4">>,
                    <<"#", "7", "F", "7", "F", "7", "F">>>>],
    [name |-> "demiboy", weights |-> <<>>,
     literals |-> <<<<"#", "7", "F", "7", "F", "7", "F">>,
                    <<"#", "C", "4", "C", "4", "C", "4">>,
                    <<"#", "9", "D", "D", "7", "E", "A">>,
                    <<"#", "F", "F", "F", "F", "F", "F">>,
                    <<"#", "9", "D", "D", "7", "E", "A">>,
                    <<"#", "C", "4", "C", "4", "C", "4">>,
                    <<"#", "7", "F", "7", "F", "7", "F">>>>],
    [name |-> "demigirl", weights |-> <<>>,
     literals |-> <<<<"#", "7", "F", "7", "F", "7", "F">>,
                    <<"#", "C", "4", "C", "4", "C", "4">>,
                    <<"#", "F", "D", "A", "D", "C", "8">>,
                    <<"#", "F", "F", "F", "F", "F", "F">>,
                    <<"#", "F", "D", "A", "D", "C", "8">>,
                    <<"#", "C", "4", "C", "4", "C", "4">>,
                    <<"#", "7", "F", "7", "F", "7", "F">>>>],
    [name |-> "transmasculine", weights |-> <<>>,
     literals |-> <<<<"#", "F", "F", "8", "A", "B", "D">>,
                    <<"#", "C", "D", "F", "5", "F", "E">>,
                    <<"#", "9", "A", "E", "B", "F", "F">>,
                    <<"#", "7", "4", "D", "F", "F", "F">>,
                    <<"#", "9", "A", "E", "B", "F", "F">>,
                    <<"#", "C", "D", "F", "5", "F", "E">>,
                    <<"#", "F", "F", "8", "A", "B", "D">>>>],
    [name |-> "transfeminine", weights |-> <<>>,
     literals |-> <<<<"#", "7", "3", "D", "E", "F", "F">>,
                    <<"#", "F", "F", "E", "2", "E", "E">>,
                    <<"#", "F", "F", "B", "5", "D", "6">>,
                    <<"#", "F", "F", "8", "D", "C", "0">>,
                    <<"#", "F", "F", "B", "5", "D", "6">>,
                    <<"#", "F", "F", "E", "2", "E", "E">>,
                    <<"#", "7", "3", "D", "E", "F", "F">>>>],
    [name |-> "genderfaun", weights |-> <<>>,
     literals |-> <<<<"#", "F", "C", "D", "6", "8", "9">>,
                    <<"#", "F", "F", "F", "0", "9", "B">>,
                    <<"#", "F", "A", "F", "9", "C", "D">>,
                    <<"#", "F", "F", "F", "F", "F", "F">>,
                    <<"#", "8", "E", "D", "E", "D", "9">>,
                    <<"#", "8", "C", "A", "C", "D", "E">>,
                    <<"#", "9", "7", "8", "2", "E", "C">>>>],
    [name |-> "demifaun", weights |-> <<>>,
     literals |-> <<<<"#", "7", "F", "7", "F", "7", "F">>,
                    <<"#", "7", "F", "7", "F", "7", "F">>,
                    <<"#", "C", "6", "C", "6", "C", "6">>,
                    <<"#", "C", "6", "C", "6", "C", "6">>,
                    <<"#", "F", "C", "C", "6", "8", "8">>,
                    <<"#", "F", "F", "F", "1", "9", "C">>,
                    <<"#", "F", "F", "F", "F", "F", "F">>,
                    <<"#", "8", "D", "E", "0", "D", "5">>,
                    <<"#", "9", "6", "8", "2", "E", "C">>,
                    <<"#", "C", "6", "C", "6", "C", "6">>,
                    <<"#", "C", "6", "C", "6", "C", "6">>,
                    <<"#", "7", "F", "7", "F", "7", "F">>,
                    <<"#", "7", "F", "7", "F", "7", "F">>>>],
    [name |-> "genderfae", weights |-> <<>>,
     literals |-> <<<<"#", "9", "7", "C", "3", "A", "5">>,
                    <<"#", "C", "3", "D", "E", "A", "E">>,
                    <<"#", "F", "9", "F", "A", "C", "D">>,
                    <<"#", "F", "F", "F", "F", "F", "F">>,
                    <<"#", "F", "C", "A", "2", "C", "4">>,
                    <<"#", "D", "B", "8", "A", "E", "4">>,
                    <<"#", "A", "9", "7", "E", "D", "D">>>>],
    [name |-> "demifae", weights |-> <<>>,
     literals |-> <<<<"#", "7", "F", "7", "F", "7", "F">>,
                    <<"#", "7", "F", "7", "F", "7", "F">>,
                    <<"#", "C", "5", "C", "5", "C", "5">>,
                    <<"#", "C", "5", "C", "5", "C", "5">>,
                    <<"#", "9", "7", "C", "3", "A", "4">>,
                    <<"#", "C", "4", "D", "E", "A", "E">>,
                    <<"#", "F", "F", "F", "F", "F", "F">>,
                    <<"#", "F", "C", "A", "2", "C", "5">>,
                    <<"#", "A", "B", "7", "E", "D", "F">>,
                    <<"#", "C", "5", "C", "5", "C", "5">>,
                    <<"#", "C", "5", "C", "5", "C", "5">>,
                    <<"#", "7", "F", "7", "F", "7", "F">>,
                    <<"#", "7", "F", "7", "F", "7", "F">>>>],
    [name |-> "neutrois", weights |-> <<>>,
     literals |-> <<<<"#", "F", "F", "F", "F", "F", "F">>,
                    <<"#", "1", "F", "9", "F", "0", "0">>,
                    <<"#", "0", "0", "0", "0", "0", "0">>>>],
    [name |-> "biromantic1", weights |-> <<>>,
     literals |-> <<<<"#", "8", "8", "6", "9", "A", "5">>,
                    <<"#", "D", "8", "A", "7", "D", "8">>,
                    <<"#", "F", "F", "F", "F", "F", "F">>,
                    <<"#", "F", "D", "B", "1", "8", "D">>,
                    <<"#", "1", "5", "1", "6", "3", "8">>>>],
    [name |-> "biromantic2", weights |-> <<>>,
     literals |-> <<<<"#", "7", "4", "0", "1", "9", "4">>,
                    <<"#", "A", "E", "B", "1", "A", "A">>,
                    <<"#", "F", "F", "F", "F", "F", "F">>,
                    <<"#", "A", "E", "B", "1", "A", "A">>,
                    <<"#", "7", "4", "0", "1", "9", "4">>>>],
    [name |-> "autoromantic", weights |-> <<>>,
     literals |-> <<<<"#", "9", "9", "D", "9", "E", "A">>,
                    <<"#", "9", "9", "D", "9", "E", "A">>,
                    <<"#", "3", "D", "A", "5", "4", "2">>,
                    <<"#", "7", "F", "7", "F", "7", "F">>,
                    <<"#", "7", "F", "7", "F", "7", "F">>>>],
    [name |-> "boyflux2", weights |-> <<1, 1, 1, 1, 1, 5, 5, 5>>,
     literals |-> <<<<"#", "E", "4", "8", "A", "E", "4">>,
                    <<"#", "9", "A", "8", "1", "B", "4">>,
                    <<"#", "5", "5", "B", "F", "A", "B">>,
                    <<"#", "F", "F", "F", "F", "F", "F">>,
                    <<"#", "A", "8", "A", "8", "A", "8">>,
                    <<"#", "8", "1", "D", "5", "E", "F">>,
                    <<"#", "6", "9", "A", "B", "E", "5">>,
                    <<"#", "5", "2", "7", "6", "D", "4">>>>],
    [name |-> "girlflux", weights |-> <<>>,
     literals |-> <<<<"f", "9", "e", "6", "d", "7">>,
                    <<"f", "2", "5", "2", "6", "c">>,
                    <<"b", "f", "0", "3", "1", "1">>,
                    <<"e", "9", "c", "5", "8", "7">>,
                    <<"b", "f", "0", "3", "1", "1">>,
                    <<"f", "2", "5", "2", "6", "c">>,
                    <<"f", "9", "e", "6", "d", "7">>>>],
    [name |-> "genderflux", weights |-> <<>>,
     literals |-> <<<<"f", "4", "7", "6", "9", "4">>,
                    <<"f", "2", "a", "2", "b", "9">>,
                    <<"c", "e", "c", "e", "c", "e">>,
                    <<"7", "c", "e", "0", "f", "7">>,
                    <<"3", "e", "c", "d", "f", "9">>,
                    <<"f", "f", "f", "4", "8", "d">>>>],
    [name |-> "finsexual", weights |-> <<>>,
     literals |-> <<<<"#", "B", "1", "8", "E", "D", "F">>,
                    <<"#", "D", "7", "B", "1", "E", "2">>,
                    <<"#", "F", "7", "C", "D", "E", "9">>,
                    <<"#", "F", "3", "9", "F", "C", "E">>,
                    <<"#", "E", "A", "7", "B", "B", "3">>>>],
    [name |-> "unlabeled1", weights |-> <<>>,
     literals |-> <<<<"#", "E", "A", "F", "8", "E", "4">>,
                    <<"#", "F", "D", "F", "D", "F", "B">>,
                    <<"#", "E", "1", "E", "F", "F", "7">>,
                    <<"#", "F", "4", "E", "2", "C", "4">>>>],
    [name |-> "unlabeled2", weights |-> <<>>,
     literals |-> <<<<"#", "2", "5", "0", "5", "4", "8">>,
                    <<"#", "F", "F", "F", "F", "F", "F">>,
                    <<"#", "F", "7", "D", "C", "D", "A">>,
                    <<"#", "E", "C", "9", "B", "E", "E">>,
                    <<"#", "9", "5", "4", "1", "F", "A">>,
                    <<"#", "7", "D", "2", "5", "5", "7">>>>],
    [name |-> "pangender", weights |-> <<>>,
     literals |-> <<<<"#", "F", "F", "F", "7", "9", "8">>,
                    <<"#", "F", "E", "D", "D", "C", "D">>,
                    <<"#", "F", "F", "E", "B", "F", "B">>,
                    <<"#", "F", "F", "F", "F", "F", "F">>,
                    <<"#", "F", "F", "E", "B", "F", "B">>,
                    <<"#", "F", "E", "D", "D", "C", "D">>,
                    <<"#", "F", "F", "F", "7", "9", "8">>>>],
    [name |-> "pangender.contrast", weights |-> <<>>,
     literals |-> <<<<"#", "f", "f", "e", "8", "7", "f">>,
                    <<"#", "f", "c", "b", "a", "a", "6">>,
                    <<"#", "f", "b", "c", "9", "f", "3">>,
                    <<"#", "F", "F", "F", "F", "F", "F">>,
                    <<"#", "f", "b", "c", "9", "f", "3">>,
                    <<"#", "f", "c", "b", "a", "a", "6">>,
                    <<"#", "f", "f", "e", "8", "7", "f">>>>],
    [name |-> "gendernonconforming1", weights |-> <<4, 1, 1, 1, 1, 1, 4>>,
     literals |-> <<<<"#", "5", "0", "2", "8", "4", "d">>,
                    <<"#", "9", "6", "4", "6", "7", "b">>,
                    <<"#", "5", "c", "9", "6", "f", "7">>,
                    <<"#", "f", "f", "e", "6", "f", "7">>,
                    <<"#", "5", "c", "9", "6", "f", "7">>,
                    <<"#", "9", "6", "4", "6", "7", "b">>,
                    <<"#", "5", "0", "2", "8", "4", "d">>>>],
    [name |-> "gendernonconforming2", weights |-> <<>>,
     literals |-> <<<<"#", "5", "0", "2", "8", "4", "d">>,
                    <<"#", "9", "6", "4", "6", "7", "b">>,
                    <<"#", "5", "c", "9", "6", "f", "7">>,
                    <<"#", "f", "f", "e", "6", "f", "7">>,
                    <<"#", "5", "c", "9", "6", "f", "7">>,
                    <<"#", "9", "6", "4", "6", "7", "b">>,
                    <<"#", "5", "0", "2", "8", "4", "d">>>>],
    [name |-> "femboy", weights |-> <<>>,
     literals |-> <<<<"#", "d", "2", "6", "0", "a", "5">>,
                    <<"#", "e", "4", "a", "f", "c", "d">>,
                    <<"#", "f", "e", "f", "e", "f", "e">>,
                    <<"#", "5", "7", "c", "e", "f", "8">>,
                    <<"#", "f", "e", "f", "e", "f", "e">>,
                    <<"#", "e", "4", "a", "f", "c", "d">>,
                    <<"#", "d", "2", "6", "0", "a", "5">>>>],
    [name |-> "tomboy", weights |-> <<>>,
     literals |-> <<<<"#", "2", "f", "3", "f", "b", "9">>,
                    <<"#", "6", "1", "3", "a", "0", "3">>,
                    <<"#", "f", "e", "f", "e", "f", "e">>,
                    <<"#", "f", "1", "a", "9", "b", "7">>,
                    <<"#", "f", "e", "f", "e", "f", "e">>,
                    <<"#", "6", "1", "3", "a", "0", "3">>,
                    <<"#", "2", "f", "3", "f", "b", "9">>>>],
    [name |-> "gynesexual", weights |-> <<>>,
     literals |-> <<<<"#", "F", "4", "A", "9", "B", "7">>,
                    <<"#", "9", "0", "3", "F", "2", "B">>,
                    <<"#", "5", "B", "9", "5", "3", "B">>>>],
    [name |-> "androsexual", weights |-> <<>>,
     literals |-> <<<<"#", "0", "1", "C", "C", "F", "F">>,
                    <<"#", "6", "0", "3", "5", "2", "4">>,
                    <<"#", "B", "7", "9", "9", "D", "E">>>>],
    [name |-> "gendervoid", weights |-> <<>>,
     literals |-> <<<<"#", "0", "8", "1", "1", "4", "9">>,
                    <<"#", "4", "B", "4", "8", "4", "B">>,
                    <<"#", "0", "0", "0", "0", "0", "0">>,
                    <<"#", "4", "B", "4", "8", "4", "B">>,
                    <<"#", "0", "8", "1", "1", "4", "9">>>>],
    [name |-> "voidgirl", weights |-> <<>>,
     literals |-> <<<<"#", "1", "8", "0", "8", "2", "7">>,
                    <<"#", "7", "A", "5", "A", "8", "B">>,
                    <<"#", "E", "0", "9", "B", "E", "D">>,
                    <<"#", "7", "A", "5", "A", "8", "B">>,
                    <<"#", "1", "8", "0", "8", "2", "7">>>>],
    [name |-> "voidboy", weights |-> <<>>,
     literals |-> <<<<"#", "0", "B", "1", "3", "0", "C">>,
                    <<"#", "5", "4", "7", "6", "5", "5">>,
                    <<"#", "6", "6", "B", "9", "6", "9">>,
                    <<"#", "5", "4", "7", "6", "5", "5">>,
                    <<"#", "0", "B", "1", "3", "0", "C">>>>],
    [name |-> "nonhuman-unity", weights |-> <<>>,
     literals |-> <<<<"#", "1", "7", "7", "B", "4", "9">>,
                    <<"#", "F", "F", "F", "F", "F", "F">>,
                    <<"#", "5", "9", "3", "C", "9", "0">>>>],
    [name |-> "plural", weights |-> <<>>,
     literals |-> <<<<"#", "2", "D", "0", "6", "2", "5">>,
                    <<"#", "5", "4", "3", "4", "7", "5">>,
                    <<"#", "7", "6", "7", "5", "C", "3">>,
                    <<"#", "8", "9", "C", "7", "B", "0">>,
                    <<"#", "F", "3", "E", "D", "B", "D">>>>],
    [name |-> "fraysexual", weights |-> <<>>,
     literals |-> <<<<"#", "2", "2", "6", "C", "B", "5">>,
                    <<"#", "9", "4", "E", "7", "D", "D">>,
                    <<"#", "F", "F", "F", "F", "F", "F">>,
                    <<"#", "6", "3", "6", "3", "6", "3">>>>],
    [name |-> "bear", weights |-> <<>>,
     literals |-> <<<<"#", "6", "2", "3", "8", "0", "4">>,
                    <<"#", "D", "5", "6", "3", "0", "0">>,
                    <<"#", "F", "E", "D", "D", "6", "3">>,
                    <<"#", "F", "E", "E", "6", "B", "8">>,
                    <<"#", "F", "F", "F", "F", "F", "F">>,
                    <<"#", "5", "5", "5", "5", "5", "5">>>>],
    [name |-> "butch", weights |-> <<>>,
     literals |-> <<<<"#", "D", "7", "2", "8", "0", "0">>,
                    <<"#", "F", "1", "7", "6", "2", "3">>,
                    <<"#", "F", "F", "9", "C", "5", "6">>,
                    <<"#", "F", "F", "F", "D", "F", "6">>,
                    <<"#", "F", "F", "C", "E", "8", "9">>,
                    <<"#", "F", "E", "A", "F", "0", "2">>,
                    <<"#", "A", "3", "7", "0", "0", "0">>>>],
    [name |-> "leather", weights |-> <<>>,
     literals |-> <<<<"#", "0", "0", "0", "0", "0", "0">>,
                    <<"#", "2", "5", "2", "5", "8", "0">>,
                    <<"#", "0", "0", "0", "0", "0", "0">>,
                    <<"#", "2", "5", "2", "5", "8", "0">>,
                    <<"#", "F", "F", "F", "F", "F", "F">>,
                    <<"#", "2", "5", "2", "5", "8", "0">>,
                    <<"#", "0", "0", "0", "0", "0", "0">>,
                    <<"#", "2", "5", "2", "5", "8", "0">>,
                    <<"#", "0", "0", "0", "0", "0", "0">>>>],
    [name |-> "otter", weights |-> <<>>,
     literals |-> <<<<"#", "2", "6", "3", "8", "8", "1">>,
                    <<"#", "5", "C", "9", "D", "C", "9">>,
                    <<"#", "F", "F", "F", "F", "F", "F">>,
                    <<"#", "3", "A", "2", "9", "1", "D">>,
                    <<"#", "5", "C", "9", "D", "C", "9">>,
                    <<"#", "2", "6", "3", "8", "8", "1">>>>],
    [name |-> "twink", weights |-> <<>>,
     literals |-> <<<<"#", "F", "F", "B", "2", "F", "F">>,
                    <<"#", "F", "F", "F", "F", "F", "F">>,
                    <<"#", "F", "F", "F", "F", "8", "1">>>>],
    [name |-> "kenochoric", weights |-> <<>>,
     literals |-> <<<<"#", "0", "0", "0", "0", "0", "0">>,
                    <<"#", "2", "E", "1", "5", "6", "9">>,
                    <<"#", "8", "2", "4", "D", "B", "7">>,
                    <<"#", "C", "7", "A", "1", "D", "6">>>>],
    [name |-> "veldian", weights |-> <<>>,
     literals |-> <<<<"#", "D", "1", "8", "2", "A", "8">>,
                    <<"#", "F", "A", "F", "6", "E", "0">>,
                    <<"#", "6", "9", "A", "C", "B", "E">>,
                    <<"#", "5", "D", "4", "4", "8", "F">>,
                    <<"#", "3", "A", "1", "1", "3", "E">>>>],
    [name |-> "solian", weights |-> <<>>,
     literals |-> <<<<"#", "F", "F", "F", "8", "E", "D">>,
                    <<"#", "F", "F", "E", "7", "A", "8">>,
                    <<"#", "F", "1", "B", "8", "7", "0">>,
                    <<"#", "A", "5", "6", "0", "5", "8">>,
                    <<"#", "4", "6", "2", "8", "1", "E">>>>],
    [name |-> "lunian", weights |-> <<>>,
     literals |-> <<<<"#", "2", "F", "0", "E", "6", "2">>,
                    <<"#", "6", "F", "4", "1", "B", "1">>,
                    <<"#", "8", "8", "9", "F", "D", "F">>,
                    <<"#", "7", "D", "D", "F", "D", "5">>,
                    <<"#", "D", "2", "F", "2", "E", "2">>>>],
    [name |-> "polyam", weights |-> <<>>,
     literals |-> <<<<"#", "F", "F", "F", "F", "F", "F">>,
                    <<"#", "F", "C", "B", "F", "0", "0">>,
                    <<"#", "0", "0", "9", "F", "E", "3">>,
                    <<"#", "E", "5", "0", "0", "5", "1">>,
                    <<"#", "3", "4", "0", "C", "4", "6">>>>],
    [name |-> "sapphic", weights |-> <<>>,
     literals |-> <<<<"#", "F", "D", "8", "B", "A", "8">>,
                    <<"#", "F", "B", "F", "2", "F", "F">>,
                    <<"#", "C", "7", "6", "B", "C", "5">>,
                    <<"#", "F", "D", "D", "7", "6", "8">>,
                    <<"#", "C", "7", "6", "B", "C", "5">>,
                    <<"#", "F", "B", "F", "2", "F", "F">>,
                    <<"#", "F", "D", "8", "B", "A", "8">>>>],
    [name |-> "androgyne", weights |-> <<>>,
     literals |-> <<<<"#", "F", "E", "0", "0", "7", "F">>,
                    <<"#", "9", "8", "3", "2", "F", "F">>,
                    <<"#", "0", "0", "B", "8", "E", "7">>>>],
    [name |-> "interprogress", weights |-> <<>>,
     literals |-> <<<<"#", "F", "F", "D", "8", "0", "0">>,
                    <<"#", "7", "9", "0", "2", "A", "A">>,
                    <<"#", "F", "F", "F", "F", "F", "F">>,
                    <<"#", "F", "F", "A", "F", "C", "8">>,
                    <<"#", "7", "4", "D", "7", "E", "E">>,
                    <<"#", "6", "1", "3", "9", "1", "5">>,
                    <<"#", "0", "0", "0", "0", "0", "0">>,
                    <<"#", "E", "5", "0", "0", "0", "0">>,
                    <<"#", "F", "F", "8", "D", "0", "0">>,
                    <<"#", "F", "F", "E", "E", "0", "0">>,
                    <<"#", "0", "2", "8", "1", "2", "1">>,
                    <<"#", "0", "0", "4", "C", "F", "F">>,
                    <<"#", "7", "7", "0", "0", "8", "8">>>>],
    [name |-> "progress", weights |-> <<>>,
     literals |-> <<<<"#", "F", "F", "F", "F", "F", "F">>,
                    <<"#", "F", "F", "A", "F", "C", "8">>,
                    <<"#", "7", "4", "D", "7", "E", "E">>,
                    <<"#", "6", "1", "3", "9", "1", "5">>,
                    <<"#", "0", "0", "0", "0", "0", "0">>,
                    <<"#", "E", "5", "0", "0", "0", "0">>,
                    <<"#", "F", "F", "8", "D", "0", "0">>,
                    <<"#", "F", "F", "E", "E", "0", "0">>,
                    <<"#", "0", "2", "8", "1", "2", "1">>,
                    <<"#", "0", "0", "4", "C", "F", "F">>,
                    <<"#", "7", "7", "0", "0", "8", "8">>>>],
    [name |-> "intersex", weights |-> <<>>,
     literals |-> <<<<"#", "F", "F", "D", "8", "0", "0">>,
                    <<"#", "F", "F", "D", "8", "0", "0">>,
                    <<"#", "7", "9", "0", "2", "A", "A">>,
                    <<"#", "F", "F", "D", "8", "0", "0">>,
                    <<"#", "F", "F", "D", "8", "0", "0">>>>],
    [name |-> "old-polyam", weights |-> <<>>,
     literals |-> <<<<"#", "0", "0", "0", "0", "F", "F">>,
                    <<"#", "F", "F", "0", "0", "0", "0">>,
                    <<"#", "F", "F", "F", "F", "0", "0">>,
                    <<"#", "F", "F", "0", "0", "0", "0">>,
                    <<"#", "0", "0", "0", "0", "0", "0">>>>],
    [name |-> "equal-rights", weights |-> <<>>,
     literals |-> <<<<"#", "0", "0", "0", "0", "F", "F">>,
                    <<"#", "0", "0", "0", "0", "F", "F">>,
                    <<"#", "F", "F", "F", "F", "0", "0">>,
                    <<"#", "0", "0", "0", "0", "F", "F">>,
                    <<"#", "0", "0", "0", "0", "F", "F">>,
                    <<"#", "F", "F", "F", "F", "0", "0">>,
                    <<"#", "0", "0", "0", "0", "F", "F">>,
                    <<"#", "0", "0", "0", "0", "F", "F">>>>],
    [name |-> "drag", weights |-> <<>>,
     literals |-> <<<<"#", "C", "C", "6", "7", "F", "F">>,
                    <<"#", "F", "F", "F", "F", "F", "F">>,
                    <<"#", "F", "F", "A", "3", "E", "3">>,
                    <<"#", "F", "F", "F", "F", "F", "F">>,
                    <<"#", "3", "3", "6", "6", "F", "F">>>>],
    [name |-> "pronounfluid", weights |-> <<>>,
     literals |-> <<<<"#", "f", "f", "b", "3", "f", "9">>,
                    <<"#", "f", "f", "f", "f", "f", "f">>,
                    <<"#", "d", "1", "f", "d", "c", "b">>,
                    <<"#", "c", "7", "b", "0", "f", "f">>,
                    <<"#", "0", "0", "0", "0", "0", "0">>,
                    <<"#", "b", "8", "c", "c", "f", "f">>>>],
    [name |-> "pronounflux", weights |-> <<>>,
     literals |-> <<<<"#", "f", "d", "b", "3", "f", "8">>,
                    <<"#", "b", "6", "c", "c", "f", "a">>,
                    <<"#", "1", "8", "d", "d", "d", "3">>,
                    <<"#", "6", "4", "f", "f", "8", "9">>,
                    <<"#", "f", "f", "7", "6", "9", "0">>,
                    <<"#", "f", "f", "f", "f", "f", "f">>>>],
    [name |-> "exipronoun", weights |-> <<>>,
     literals |-> <<<<"#", "1", "c", "3", "d", "3", "4">>,
                    <<"#", "f", "f", "f", "f", "f", "f">>,
                    <<"#", "3", "2", "1", "8", "4", "8">>,
                    <<"#", "0", "0", "0", "0", "0", "0">>>>],
    [name |-> "neopronoun", weights |-> <<>>,
     literals |-> <<<<"#", "b", "c", "e", "c", "6", "4">>,
                    <<"#", "f", "f", "f", "f", "f", "f">>,
                    <<"#", "3", "8", "0", "7", "7", "a">>>>],
    [name |-> "neofluid", weights |-> <<>>,
     literals |-> <<<<"#", "f", "f", "e", "c", "a", "0">>,
                    <<"#", "f", "f", "f", "f", "f", "f">>,
                    <<"#", "f", "f", "e", "c", "a", "0">>,
                    <<"#", "3", "8", "0", "8", "7", "a">>,
                    <<"#", "b", "c", "e", "c", "6", "4">>>>],
    [name |-> "genderqueer", weights |-> <<>>,
     literals |-> <<<<"#", "b", "5", "7", "e", "d", "c">>,
                    <<"#", "b", "5", "7", "e", "d", "c">>,
                    <<"#", "f", "f", "f", "f", "f", "f">>,
                    <<"#", "f", "f", "f", "f", "f", "f">>,
                    <<"#", "4", "a", "8", "1", "2", "3">>,
                    <<"#", "4", "a", "8", "1", "2", "3">>>>],
    [name |-> "cisgender", weights |-> <<>>,
     literals |-> <<<<"#", "D", "7", "0", "2", "7", "0">>,
                    <<"#", "0", "0", "3", "8", "A", "7">>>>],
    [name |-> "baker", weights |-> <<>>,
     literals |-> <<<<"#", "F", "2", "3", "D", "9", "E">>,
                    <<"#", "F", "8", "0", "A", "2", "4">>,
                    <<"#", "F", "7", "8", "0", "2", "2">>,
                    <<"#", "F", "9", "E", "8", "1", "F">>,
                    <<"#", "1", "E", "9", "7", "2", "E">>,
                    <<"#", "1", "B", "8", "6", "B", "C">>,
                    <<"#", "2", "4", "3", "8", "9", "7">>,
                    <<"#", "6", "F", "0", "A", "8", "2">>>>],
    [name |-> "caninekin", weights |-> <<>>,
     literals |-> <<<<"#", "2", "d", "2", "8", "2", "2">>,
                    <<"#", "5", "4", "3", "d", "2", "5">>,
                    <<"#", "9", "c", "7", "5", "4", "d">>,
                    <<"#", "e", "8", "d", "a", "c", "2">>,
                    <<"#", "c", "f", "a", "d", "8", "c">>,
                    <<"#", "b", "7", "7", "b", "5", "5">>,
                    <<"#", "9", "5", "4", "e", "3", "1">>>>],
    [name |-> "beiyang", weights |-> <<>>,
     literals |-> <<<<"#", "D", "F", "1", "B", "1", "2">>,
                    <<"#", "F", "F", "C", "6", "0", "0">>,
                    <<"#", "0", "1", "6", "3", "9", "D">>,
                    <<"#", "F", "F", "F", "F", "F", "F">>,
                    <<"#", "0", "0", "0", "0", "0", "0">>>>],
    [name |-> "burger", weights |-> <<>>,
     literals |-> <<<<"#", "F", "3", "A", "2", "6", "A">>,
                    <<"#", "4", "9", "8", "7", "0", "1">>,
                    <<"#", "F", "D", "1", "C", "1", "3">>,
                    <<"#", "7", "D", "3", "8", "2", "9">>,
                    <<"#", "F", "3", "A", "2", "6", "A">>>>],
    [name |-> "throatlozenges", weights |-> <<>>,
     literals |-> <<<<"#", "2", "7", "5", "9", "D", "A">>,
                    <<"#", "0", "3", "9", "4", "0", "D">>,
                    <<"#", "F", "5", "F", "1", "0", "0">>,
                    <<"#", "F", "5", "9", "B", "0", "0">>,
                    <<"#", "B", "7", "1", "2", "1", "2">>>>],
    [name |-> "band", weights |-> <<>>,
     literals |-> <<<<"#", "2", "6", "7", "0", "c", "0">>,
                    <<"#", "f", "5", "b", "d", "0", "0">>,
                    <<"#", "d", "c", "0", "0", "4", "5">>,
                    <<"#", "e", "0", "6", "0", "8", "e">>>>]
>>

\* lines 24-29 and 31-38: the colours of an entry, its literals in order,
\* each repeated by its weight when the entry is written with with_weights
EntryColors(e, parsed) ==
    IF e.weights = <<>> THEN parsed ELSE with_weights(parsed, e.weights)

InitRegistry ==
    /\ reg_pos \in 1..Len(PRESETS)
    /\ hex_colors = <<>>
    /\ built = [kind |-> "idle"]
    /\ custom_presets = [none |-> TRUE, items |-> <<>>]
    /\ profiles = [kind |-> "idle"]
    /\ load_pc = "idle" /\ import_error = "none" /\ types_names = {}
    /\ colors = <<>> /\ call = [op |-> "idle"] /\ weights = <<>> /\ fitted = <<>>
    /\ result = [kind |-> "idle"]
    /\ LightIdle
    /\ RsIdle

\* build_hex_color_profile(literals of the entry at reg_pos)
ValidateEntry ==
    /\ built.kind = "idle"
    /\ hex_colors' = PRESETS[reg_pos].literals
    /\ built' = build_hex_color_profile(PRESETS[reg_pos].literals)
    /\ UNCHANGED <<custom_presets, profiles, rsVars, presetsVars>>

NextRegistry == ValidateEntry

SpecRegistry == InitRegistry /\ [][NextRegistry]_vars

(***************************************************************************)
(* Properties of run_rust                                                  *)
(***************************************************************************)
CountOp(op) == Cardinality({i \in DOMAIN events : events[i].op = op})
WarnCount == Cardinality({i \in DOMAIN events :
                            events[i].op = "printc" /\ events[i].text = "warning"})
\* run_rust has passed line 29 (also when it was interrupted after it)
PastLookup == \/ pc \in {"dispatch", "call_run_py", "in_run_py", "returned", "replaced",
                        "execv_failed"}
              \/ interruptedAt \in {"dispatch", "call_run_py", "in_run_py"}
\* run_rust has passed line 24 but not line 29
PastPlatformOnly == pc = "find_exe" \/ interruptedAt = "find_exe"

\* the macOS release, as numbers, is below 10.12
MacBelow1012 ==
    /\ macVersion # <<>>
    /\ \/ macVersion[1] < 10
       \/ macVersion[1] = 10 /\ (Len(macVersion) = 1 \/ macVersion[2] < 12)
WindowsCase == system = "Windows" /\ winMajor < 10
MacCase == ~WindowsCase /\ system = "Darwin" /\ MacBelow1012
\* the fallback matrix of the specification, first match wins
ExpectedFallback ==
    IF WindowsCase THEN "windows"
    ELSE IF MacCase THEN "macos"
    ELSE IF ~binExists THEN "missing"
    ELSE "none"
ReasonKind ==
    IF reason = NoReason THEN "none"
    ELSE IF reason = WindowsReason THEN "windows"
    ELSE IF reason = MissingReason THEN "missing"
    ELSE IF reason = MacReason(mac_ver) THEN "macos"
    ELSE "other"

\* C1: the fallback reason is decided by (platform, OS version, binary present)
\* in that order, first match wins: old Windows, else old macOS, else a missing
\* executable at <install-root>/rust/hyfetch[.exe], else none; a platform
\* reason set by the platform check is still the reason after the lookup of
\* the executable, also when the executable is absent; and every run that is
\* not interrupted and has left the lookup has made that decision.
C1_FallbackMatrix ==
    /\ PastPlatformOnly =>
          ReasonKind = (IF WindowsCase THEN "windows"
                        ELSE IF MacCase THEN "macos" ELSE "none")
    /\ PastLookup =>
          /\ ReasonKind = ExpectedFallback
          /\ pd = (IF system = "Windows" THEN "<SRC>\\rust\\hyfetch.exe"
                   ELSE "<SRC>/rust/hyfetch")
    /\ (interruptedAt = "none" /\ pc \notin {"platform_check", "find_exe"}) => PastLookup

\* C2: a run of run_rust that is not interrupted ends in exactly one of two
\* ways: with a reason, run_py was called exactly once, run_rust returned and
\* os.execv was never called; without one, run_py was never called, os.execv
\* was called with [str(pd)] followed by sys.argv[1:] in order, control went
\* to the executable and nothing runs after it.
C2_Dispositions ==
    /\ CountOp("run_py") <= 1 /\ CountOp("execv") <= 1
    /\ reason # NoReason => CountOp("execv") = 0
    /\ reason = NoReason => CountOp("run_py") = 0
    /\ pc = "returned" => reason # NoReason /\ CountOp("run_py") = 1
    /\ CountOp("execv") = 1 => pc = "replaced"
    /\ pc = "replaced" =>
          /\ reason = NoReason
          /\ ~ENABLED NextRs
          /\ LET e == events[Len(events)] IN
               /\ e.op = "execv"
               /\ e.path = pd
               /\ Len(e.args) = Len(argv)
               /\ e.args[1] = pd
               /\ \A i \in 2..Len(argv) : e.args[i] = argv[i]
    /\ interruptedAt = "none" =>
          \/ pc \in {"platform_check", "returned", "replaced"}
          \/ ENABLED (FindExecutable \/ Warn \/ CallRunPy \/ ReturnFromRunPy \/ Execv)
    /\ (PastLookup /\ interruptedAt = "none" /\ reason # NoReason) =>
          pc \in {"dispatch", "call_run_py", "in_run_py", "returned"}
    /\ (PastLookup /\ interruptedAt = "none" /\ reason = NoReason) =>
          pc \in {"dispatch", "replaced"}

\* C3: the fallback warning is printed exactly when a reason is set and
\* HYFETCH_DONT_WARN_RUST is not in the environment (any value, the empty one
\* too, suppresses it), at most once and before run_py is called; the variable
\* changes neither the backend chosen nor whether run_py runs.
C3_WarningToggle ==
    LET absent == "HYFETCH_DONT_WARN_RUST" \notin DOMAIN environ IN
    /\ WarnCount <= 1
    /\ WarnCount = 1 => reason # NoReason /\ absent
    /\ pc \in {"call_run_py", "in_run_py", "returned"} => (WarnCount = 1 <=> absent)
    /\ \A i \in DOMAIN events : events[i].op = "run_py" =>
          /\ absent <=> (i = 2 /\ events[1].op = "printc" /\ events[1].text = "warning")
          /\ ~absent <=> i = 1
    /\ PastLookup => ReasonKind = ExpectedFallback
    /\ pc = "returned" => ExpectedFallback # "none" /\ CountOp("run_py") = 1
    /\ pc = "replaced" => ExpectedFallback = "none"
C3_Witness ==
    /\ "HYFETCH_DONT_WARN_RUST" \in DOMAIN environ
    /\ environ["HYFETCH_DONT_WARN_RUST"] = ""
    /\ pc = "returned" /\ WarnCount = 0 /\ CountOp("run_py") = 1

\* C4: run as the entry point, a KeyboardInterrupt raised anywhere in run_rust
\* (the decision, the warning, the legacy runner) is caught: the cancellation
\* message is printed, the process exits with status 0, and no interrupt
\* leaves the entry point.
C4_InterruptCaught ==
    asMain =>
       /\ pc \notin {"propagated", "uncaught"}
       /\ interruptedAt # "none" => pc \in {"except", "except_exit", "exited"}
       /\ pc = "except" => ENABLED HandlePrint
       /\ pc = "except_exit" =>
            /\ events[Len(events)] = Event("printc", "", <<>>, "interrupted")
            /\ ENABLED HandleExit
       /\ pc = "exited" =>
            /\ interruptedAt # "none"
            /\ exitStatus = 0
            /\ events[Len(events)] = Event("printc", "", <<>>, "interrupted")
       /\ interruptedAt # "none" => exitStatus \in {-1, 0}

(***************************************************************************)
(* Properties of models.py                                                 *)
(***************************************************************************)
HexDigitSet == {"0", "1", "2", "3", "4", "5", "6", "7", "8", "9",
                "a", "b", "c", "d", "e", "f", "A", "B", "C", "D", "E", "F"}
\* '#' followed by exactly 3 or exactly 6 hex digits
HexLiteral(s) ==
    /\ Len(s) = 4 \/ Len(s) = 7
    /\ s[1] = "#"
    /\ \A i \in 2..Len(s) : s[i] \in HexDigitSet
AllHexLiterals(cs) == \A i \in 1..Len(cs) : HexLiteral(cs[i])
\* the first string of the list that is no hex literal
FirstOffending(cs) ==
    cs[CHOOSE i \in 1..Len(cs) :
          ~HexLiteral(cs[i]) /\ \A j \in 1..(i - 1) : HexLiteral(cs[j])]

\* C5: build_hex_color_profile accepts exactly the lists whose strings are all
\* '#' followed by 3 or 6 hex digits; for any other list it raises ValueError
\* naming the first offending string of the list, and returns no profile.
C5_HexValidation ==
    built.kind # "idle" =>
       IF AllHexLiterals(hex_colors)
       THEN /\ built.kind # "ValueError"
            /\ hex_colors # <<>> => built.kind = "return" /\ built.value.raw = hex_colors
       ELSE /\ built.kind = "ValueError"
            /\ built.value = NoValue
            /\ built.msg.fmt = "invalid hex color: {color}"
            /\ built.msg.color = FirstOffending(hex_colors)
C5_Witness ==
    /\ built.kind = "ValueError"
    /\ hex_colors = << <<"#", "f", "f", "f">>, <<"#", "G", "0", "0">> >>
    /\ built.msg.color = <<"#", "G", "0", "0">>

\* an entry that validates as a proper colour profile: a non-empty list of
\* hex literals
ProperEntry(item) == item[2] # <<>> /\ AllHexLiterals(item[2])
HasBadLiteral(item) == ~AllHexLiterals(item[2])

\* C6: custom_preset_profiles returns an empty mapping for None or {}; with
\* every entry valid it returns a mapping with exactly the keys of
\* custom_presets; with an entry holding an invalid hex string, wherever it
\* stands among valid entries, it raises ValueError whose message is that
\* entry's key prefixed to the original failure text, and returns no mapping.
C6_CustomPresets ==
    LET items == custom_presets.items IN
    profiles.kind # "idle" =>
       /\ (custom_presets.none \/ items = <<>>) =>
             profiles.kind = "return" /\ profiles.value = <<>>
       /\ (\A i \in 1..Len(items) : ProperEntry(items[i])) =>
             /\ profiles.kind = "return"
             /\ DictKeys(profiles.value) = DictKeys(items)
             /\ \A i \in 1..Len(items) : profiles.value[i][2].raw = items[i][2]
       /\ \A i \in 1..Len(items) :
             (HasBadLiteral(items[i]) /\ \A j \in 1..(i - 1) : ProperEntry(items[j])) =>
                /\ profiles.kind = "ValueError"
                /\ profiles.value = <<>>
                /\ profiles.msg.fmt =
                      "failed to validate custom preset key \"{preset_name}\": {err}"
                /\ profiles.msg.preset_name = items[i][1]
                /\ profiles.msg.err = "invalid hex color: {color}"
                /\ profiles.msg.color = FirstOffending(items[i][2])
C6_Witness ==
    LET items == custom_presets.items IN
    /\ Len(items) = 3
    /\ ProperEntry(items[1]) /\ HasBadLiteral(items[2]) /\ ProperEntry(items[3])
    /\ profiles.kind = "ValueError"
    /\ profiles.msg.preset_name = items[2][1]

\* C7: every entry that is not a proper colour profile, an empty colour list
\* included, makes custom_preset_profiles raise a validation failure
\* (ValueError) that names the entry's key.
C7_EveryImproperEntryNamed ==
    LET items == custom_presets.items IN
    profiles.kind # "idle" =>
       \A i \in 1..Len(items) :
          (~ProperEntry(items[i]) /\ \A j \in 1..(i - 1) : ProperEntry(items[j])) =>
             profiles.kind = "ValueError" /\ profiles.msg.preset_name = items[i][1]

(***************************************************************************)
(* Properties of presets.py                                                *)
(***************************************************************************)
RECURSIVE SumSeq(_)
SumSeq(ws) == IF ws = <<>> THEN 0 ELSE ws[1] + SumSeq(Tail(ws))
\* the colour whose run covers position j when the runs have lengths ws
RunIndex(ws, j) ==
    CHOOSE i \in 1..Len(ws) :
        /\ SumSeq(SubSeq(ws, 1, i)) >= j
        /\ SumSeq(SubSeq(ws, 1, i - 1)) < j

\* C8: for a profile of n >= 1 colours and a length L >= 0, with_length
\* returns exactly L colours (the weights sum to L), the profile's colours in
\* contiguous runs in profile order; so color_text never reads past the end of
\* the fitted sequence.
C8_ExactLength ==
    call.op # "idle" =>
       /\ Len(weights) = Len(colors)
       /\ \A i \in 1..Len(weights) : weights[i] >= 0
       /\ SumSeq(weights) = call.length
       /\ Len(fitted) = call.length
       /\ \A j \in 1..Len(fitted) : fitted[j] = colors[RunIndex(weights, j)]
       /\ call.op = "color_text" =>
             /\ result.kind = "return"
             /\ \A i \in 1..Len(call.txt) : i \in DOMAIN fitted
C8_Witness ==
    /\ call.op = "color_text" /\ Len(call.txt) = 4 /\ Len(colors) = 3
    /\ weights = <<1, 2, 1>> /\ result.kind = "return"

\* C9 as stated: 3 colours and length 10 give weights [3,4,3]; 4 colours and
\* length 10 give weights [2,3,3,2].
C9_AsStated ==
    (call.op = "with_length" /\ call.length = 10) =>
       /\ Len(colors) = 3 => weights = <<3, 4, 3>>
       /\ Len(colors) = 4 => weights = <<2, 3, 3, 2>>
\* C9, amended: 3 colours and length 10 give weights [3,4,3]; 4 colours and
\* length 10 give weights [3,2,2,3] (the two extra units go to the borders).
C9_Amended ==
    (call.op = "with_length" /\ call.length = 10) =>
       /\ Len(colors) = 3 => weights = <<3, 4, 3>>
       /\ Len(colors) = 4 => weights = <<3, 2, 2, 3>>
C9_Witness ==
    /\ call.op = "with_length" /\ call.length = 10 /\ Len(colors) = 4
    /\ weights = <<3, 2, 2, 3>> /\ Len(fitted) = 10

\* C10: whatever the text (the empty one too) and the foreground and
\* space_only flags, the output of color_text ends with ESC[39;49m.
C10_EndsWithReset ==
    call.op = "color_text" =>
       /\ result.kind = "return"
       /\ Len(result.text) >= Len(Reset)
       /\ SubSeq(result.text, Len(result.text) - Len(Reset) + 1, Len(result.text))
             = <<"ESC", "[", "3", "9", ";", "4", "9", "m">>
C10_Witness ==
    /\ call.op = "color_text" /\ call.txt = <<>> /\ call.space_only /\ ~call.foreground
    /\ result.text = <<"ESC", "[", "3", "9", ";", "4", "9", "m">>

\* C11 as stated: the weights of with_length are symmetric around the centre
\* for every profile size and every length: weights[i] = weights[n-1-i].
C11_AsStated ==
    call.op # "idle" =>
       \A i \in 1..Len(weights) : weights[i] = weights[Len(weights) + 1 - i]
\* C11, amended: the weights are symmetric whenever the number of colours n is
\* odd or the length is even; for an even n and an odd length (where no
\* symmetric weights can sum to the length) they are symmetric except that the
\* colour at index n // 2 has one unit more than its mirror at n // 2 - 1.
C11_Amended ==
    LET n == Len(weights)
        h == n \div 2
    IN call.op # "idle" =>
          IF n % 2 = 1 \/ call.length % 2 = 0
          THEN \A i \in 1..n : weights[i] = weights[n + 1 - i]
          ELSE /\ \A i \in 1..n : i \notin {h, h + 1} => weights[i] = weights[n + 1 - i]
               /\ weights[h + 1] = weights[h] + 1
C11_Witness ==
    /\ call.op = "with_length" /\ Len(colors) = 4 /\ call.length = 5
    /\ weights = <<1, 1, 2, 1>>

\* the output read back as a terminal reads it: an escape sequence runs from
\* ESC to the next "m", any other element is a character of text
RECURSIVE Tokens(_, _)
Tokens(out, i) ==
    IF i > Len(out) THEN <<>>
    ELSE IF out[i] = "ESC"
         THEN LET j == CHOOSE k \in i..Len(out) :
                          out[k] = "m" /\ \A l \in i..(k - 1) : out[l] # "m"
              IN <<[esc |-> TRUE, s |-> SubSeq(out, i, j)]>> \o Tokens(out, j + 1)
         ELSE <<[esc |-> FALSE, s |-> <<out[i]>>]>> \o Tokens(out, i + 1)
\* the index in toks of the k-th character of text (0 for k = 0)
CharAt(toks, k) ==
    IF k = 0 THEN 0
    ELSE CHOOSE p \in 1..Len(toks) :
            /\ ~toks[p].esc
            /\ Cardinality({q \in 1..p : ~toks[q].esc}) = k
\* the escape sequences emitted between character k - 1 and character k
EscBefore(toks, k) ==
    LET t == SubSeq(toks, CharAt(toks, k - 1) + 1, CharAt(toks, k) - 1)
    IN [x \in 1..Len(t) |-> t[x].s]
\* the text left when every escape sequence is removed
RECURSIVE Stripped(_)
Stripped(toks) ==
    IF toks = <<>> THEN <<>>
    ELSE (IF toks[1].esc THEN <<>> ELSE toks[1].s) \o Stripped(Tail(toks))
\* a colour sequence ESC[38;2;...m or ESC[48;2;...m
IsColorSeq(e) ==
    /\ Len(e) > 7
    /\ SubSeq(e, 1, 7) \in {<<"ESC", "[", "3", "8", ";", "2", ";">>,
                            <<"ESC", "[", "4", "8", ";", "2", ";">>}
\* the last escape sequence emitted before character k, <<>> if there is none
LastEscBefore(toks, k) ==
    LET before == {p \in 1..(CharAt(toks, k) - 1) : toks[p].esc}
    IN IF before = {} THEN <<>>
       ELSE toks[CHOOSE p \in before : \A q \in before : q <= p].s

\* C12: in color_text with space_only, for every text: a colour sequence is
\* emitted before a character exactly when the character is a space; no
\* colour is in force at a non-space character; ESC[39;49m is emitted right
\* before a non-space character exactly when the character before it is a
\* space; and without its escape sequences the output is the text.
C12_SpaceOnly ==
    (call.op = "color_text" /\ call.space_only) =>
       /\ result.kind = "return"
       /\ LET toks == Tokens(result.text, 1)
              txt == call.txt
          IN /\ Stripped(toks) = txt
             /\ Cardinality({p \in 1..Len(toks) : ~toks[p].esc}) = Len(txt)
             /\ \A k \in 1..Len(txt) :
                   LET esc == EscBefore(toks, k) IN
                   /\ (\E x \in 1..Len(esc) : IsColorSeq(esc[x])) <=> txt[k] = " "
                   /\ txt[k] = " " => esc = <<to_ansi(fitted[k], call.foreground)>>
                   /\ txt[k] # " " =>
                         /\ LastEscBefore(toks, k) \in {<<>>, Reset}
                         /\ (\E x \in 1..Len(esc) : esc[x] = Reset)
                               <=> (k > 1 /\ txt[k - 1] = " ")
                         /\ esc \in {<<>>, <<Reset>>}
C12_Witness ==
    /\ call.op = "color_text" /\ call.space_only /\ ~call.foreground
    /\ call.txt = <<"a", " ", "b">> /\ Len(colors) = 3
    /\ result.text = <<"a">> \o to_ansi(colors[2], FALSE) \o <<" ">> \o Reset
                        \o <<"b">> \o Reset

(***************************************************************************)
(* Properties of set_light_dl                                              *)
(***************************************************************************)
Black == <<"#", "0", "0", "0", "0", "0", "0">>
White == <<"#", "F", "F", "F", "F", "F", "F">>
IsLightOrDark(s) == PyLower(s) = LIGHT \/ PyLower(s) = DARK
\* every colour of the returned profile was made by overlaying hex at alpha
AllOverlaid(hex) ==
    /\ lit.kind = "return" /\ Len(lit.colors) = Len(colors)
    /\ \A i \in 1..Len(colors) :
          /\ lit.colors[i].method = "overlay"
          /\ lit.colors[i].c = colors[i]
          /\ lit.colors[i].color = [from_hex |-> hex]
\* every colour of the returned profile was made by set_light with these clamps
AllClamped(at_least, at_most) ==
    /\ lit.kind = "return" /\ Len(lit.colors) = Len(colors)
    /\ \A i \in 1..Len(colors) :
          /\ lit.colors[i].method = "set_light"
          /\ lit.colors[i].c = colors[i]
          /\ lit.colors[i].light = light
          /\ lit.colors[i].at_least = at_least
          /\ lit.colors[i].at_most = at_most
\* what set_light_dl does for a terminal that is "light" or "dark"
StrategyFor(s) ==
    IF use_overlay
    THEN AllOverlaid(IF PyLower(s) = LIGHT THEN Black ELSE White)
    ELSE IF PyLower(s) = DARK THEN AllClamped("True", "None")
         ELSE AllClamped("None", "True")

\* C13 as stated: the strategy follows use_overlay (overlay of black for
\* light and white for dark without a clamp; set_light with at-least only for
\* dark, at-most only for light); a missing term is taken from the detector;
\* a term other than light/dark, whatever its case, fails.
C13_AsStated ==
    lit.kind # "idle" =>
       /\ term.none => StrategyFor(light_dark)
       /\ (~term.none /\ IsLightOrDark(term.s)) => StrategyFor(term.s)
       /\ (~term.none /\ ~IsLightOrDark(term.s)) => lit.kind = "AssertionError"
\* C13, amended: the strategy follows use_overlay as stated.  A term that is
\* missing or the empty string is taken from the detector.  A non-empty term
\* other than light/dark, whatever its case, fails with AssertionError when
\* assert statements are executed; when they are not (python -O) it is not
\* rejected: the raw strategy handles it like 'light' (at-most clamp only)
\* and the overlay strategy like 'dark' (white overlaid).
C13_Amended ==
    lit.kind # "idle" =>
       /\ (term.none \/ term.s = <<>>) => StrategyFor(light_dark)
       /\ (~term.none /\ IsLightOrDark(term.s)) => StrategyFor(term.s)
       /\ (~term.none /\ term.s # <<>> /\ ~IsLightOrDark(term.s)) =>
             IF py_debug THEN lit.kind = "AssertionError"
             ELSE IF use_overlay THEN AllOverlaid(White)
             ELSE AllClamped("None", "True")
\* an empty term on a dark terminal, raw strategy: defaulted, at-least clamp
C13_Witness ==
    /\ ~use_overlay /\ ~term.none /\ term.s = <<>> /\ light_dark = DARK /\ light = 65
    /\ lit.kind = "return"
    /\ lit.colors[1].method = "set_light"
    /\ lit.colors[1].at_least = "True" /\ lit.colors[1].at_most = "None"

(***************************************************************************)
(* Properties of PRESETS                                                   *)
(***************************************************************************)
\* the number of colours of the ColorProfile an entry of PRESETS denotes
EntrySize(e) == Len(EntryColors(e, e.literals))

\* C14: every colour literal of every entry of PRESETS is '#' followed by
\* exactly 3 or 6 hex digits, the format the hex validation accepts, and
\* every entry has at least 2 colours.
C14_RegistryLiterals ==
    built.kind # "idle" =>
        /\ built.kind = "return"
        /\ AllHexLiterals(hex_colors)
        /\ EntrySize(PRESETS[reg_pos]) >= 2
=============================================================================
